---- MODULE Spec2Model ----
(***************************************************************************)
(* VM and container lifecycle orchestrator of falck                        *)
(* (desktop/src-tauri/src/backend.rs, containers.rs, storage.rs).          *)
(*                                                                         *)
(* Worker threads run the blocking operations of the backend.  External    *)
(* commands (limactl, wsl) have a duration: a thread first issues the      *)
(* command (th[t].cmd is set) and in a later step observes its outcome,    *)
(* which the environment chooses among the outcomes the command can have   *)
(* in the current state of the VM world.                                   *)
(***************************************************************************)
EXTENDS Integers, Sequences, FiniteSets, TLC

\* ------------------------------------------------------------------ bounds
NumThreads == 2
\* longest port list passed to ensure_vm_port_forwards
MaxPorts == 2
\* successive runs of the guest bootstrap on one guest
MaxRuns == 2
\* timeout_secs of the commands given to the spawn helpers
SpawnTimeout == 1

Threads == 1..NumThreads
EntryIds == 1..NumThreads

\* ------------------------------------------------------- program constants
VM_SHELL_TIMEOUT_SECS == 20
VM_START_TIMEOUT_SECS == 120
VM_CREATE_TIMEOUT_SECS == 180
VM_BOOTSTRAP_TIMEOUT_SECS == 240
NoTimeout == 0
\* retries of the guest path probes in resolve_repo_root
Retries == 5

\* Host repository paths used as single-flight keys; the first one lies
\* under the host home directory, the second one does not.
HostHome == "/home/u"
Keys == {"/home/u/proj", "/srv/app"}
WinRepo == "C:\\proj"
NoKey == ""

VmProvider == {"Lima", "Wsl"}
BackendMode == {"Host", "Virtualized"}

VARIABLES
    th,          \* per-thread state: position, locals and call history
    inflight,    \* VM_ENSURE_INFLIGHT: key -> EnsureInFlight id, 0 = absent
    entries,     \* the EnsureInFlight objects, by id
    vmLock,      \* VM_OP_LOCK: holder thread, 0 = free
    vm,          \* the provider's view of each instance
    provider,    \* vm_provider(): fixed per process
    mode,        \* the persisted BackendMode setting
    guest        \* guest mounts as seen by the shell probes

vars == <<th, inflight, entries, vmLock, vm, provider, mode, guest>>

\* --------------------------------------------------------------- naming
\* TLC cannot take a string apart, so each path string is paired with its
\* characters once; everything below is computed from the characters.
MixedPath == "/srv/My App"
Paths == Keys \cup {WinRepo, MixedPath, NoKey}
PathChars(k) ==
    CASE k = "/home/u/proj" -> <<"/", "h", "o", "m", "e", "/", "u", "/", "p", "r", "o", "j">>
      [] k = "/srv/app" -> <<"/", "s", "r", "v", "/", "a", "p", "p">>
      [] k = WinRepo -> <<"C", ":", "\\", "p", "r", "o", "j">>
      [] k = MixedPath -> <<"/", "s", "r", "v", "/", "M", "y", " ", "A", "p", "p">>
      [] OTHER -> <<>>

Lower == <<"a", "b", "c", "d", "e", "f", "g", "h", "i", "j", "k", "l", "m",
           "n", "o", "p", "q", "r", "s", "t", "u", "v", "w", "x", "y", "z">>
Upper == <<"A", "B", "C", "D", "E", "F", "G", "H", "I", "J", "K", "L", "M",
           "N", "O", "P", "Q", "R", "S", "T", "U", "V", "W", "X", "Y", "Z">>
Digits == <<"0", "1", "2", "3", "4", "5", "6", "7", "8", "9">>
IndexIn(q, c) == CHOOSE i \in DOMAIN q : q[i] = c
Among(q, c) == \E i \in DOMAIN q : q[i] = c

\* value.as_bytes() of one ASCII character
AsByte(c) ==
    CASE Among(Lower, c) -> 96 + IndexIn(Lower, c)
      [] Among(Upper, c) -> 64 + IndexIn(Upper, c)
      [] Among(Digits, c) -> 47 + IndexIn(Digits, c)
      [] c = " " -> 32
      [] c = "-" -> 45
      [] c = "/" -> 47
      [] c = ":" -> 58
      [] c = "\\" -> 92

RECURSIVE Join(_)
Join(q) == IF q = <<>> THEN "" ELSE Head(q) \o Join(Tail(q))

RECURSIVE BitXor(_, _)
BitXor(a, b) ==
    IF a = 0 THEN b
    ELSE IF b = 0 THEN a
    ELSE ((a + b) % 2) + 2 * BitXor(a \div 2, b \div 2)

\* fnv1a_hash keeps a u64 of which the callers use the low 32 bits; the low
\* 32 bits of hash ^ byte and of the wrapping product depend on the low 32
\* bits alone, kept here as two 16-bit halves <<high, low>>.
FnvPrimeLow == 435
FnvOffsetLow == <<33826, 8997>>
FnvStep(h, byte) ==
    LET lo == BitXor(h[2], byte)
        pl == lo * FnvPrimeLow
        ph == h[1] * FnvPrimeLow
    IN  <<(ph + (pl \div 65536)) % 65536, pl % 65536>>

RECURSIVE FnvOver(_, _)
FnvOver(h, q) == IF q = <<>> THEN h ELSE FnvOver(FnvStep(h, AsByte(Head(q))), Tail(q))

\* format!("{:08x}", (hash & 0xffff_ffff) as u32)
HexDigit(n) == IF n < 10 THEN Digits[n + 1] ELSE Lower[n - 9]
Hex4(n) ==
    HexDigit(n \div 4096) \o HexDigit((n \div 256) % 16)
        \o HexDigit((n \div 16) % 16) \o HexDigit(n % 16)
Hex8(h) == Hex4(h[1]) \o Hex4(h[2])

\* sanitize_name on characters: alphanumerics lower-cased, every run of
\* other characters one dash, dashes trimmed at both ends, "repo" if empty
RECURSIVE Dashed(_, _)
Dashed(q, last_dash) ==
    IF q = <<>> THEN <<>>
    ELSE LET ch == Head(q)
         IN  IF Among(Lower, ch) \/ Among(Digits, ch)
             THEN <<ch>> \o Dashed(Tail(q), FALSE)
             ELSE IF Among(Upper, ch)
                  THEN <<Lower[IndexIn(Upper, ch)]>> \o Dashed(Tail(q), FALSE)
                  ELSE IF last_dash THEN Dashed(Tail(q), TRUE)
                       ELSE <<"-">> \o Dashed(Tail(q), TRUE)

RECURSIVE TrimDashes(_)
TrimDashes(q) ==
    IF q = <<>> THEN q
    ELSE IF Head(q) = "-" THEN TrimDashes(Tail(q))
    ELSE IF q[Len(q)] = "-" THEN TrimDashes(SubSeq(q, 1, Len(q) - 1))
    ELSE q

sanitize_name(q) ==
    LET trimmed == TrimDashes(Dashed(q, FALSE))
    IN  IF trimmed = <<>> THEN "repo" ELSE Join(trimmed)

\* Path::file_name: the last component; the separator is "/" and, for the
\* Windows path, also "\"; None (no component) becomes "repo".  No path
\* used here ends in a separator.
RECURSIVE LastComponent(_)
LastComponent(q) ==
    IF q = <<>> THEN q
    ELSE IF \E i \in DOMAIN q : q[i] \in {"/", "\\"}
         THEN LastComponent(Tail(q))
         ELSE q

FileNameChars(k) ==
    IF LastComponent(PathChars(k)) = <<>> THEN <<"r", "e", "p", "o">>
    ELSE LastComponent(PathChars(k))

\* computed once per path string
NameTable ==
    [k \in Paths |->
        [file |-> Join(FileNameChars(k)),
         base |-> sanitize_name(FileNameChars(k)),
         hash |-> Hex8(FnvOver(FnvOffsetLow, PathChars(k))),
         apphash |-> Hex8(FnvOver(FnvOffsetLow, PathChars(k) \o <<":", "w", "e", "b">>))]]

file_name(k) == NameTable[k].file

\* low 32 bits of the 64-bit FNV-1a hash of the path, as 8 hex digits
fnv1a_hash(k) == NameTable[k].hash

vm_name_for_repo_of_provider(k) ==
    (IF provider = "Wsl" THEN "falck-wsl-" ELSE "falck-") \o NameTable[k].base \o "-"
        \o fnv1a_hash(k)
vm_name_for_repo(k) == "falck-" \o NameTable[k].base \o "-" \o fnv1a_hash(k)
lima_mount_target_legacy_first(k) ==
    "/mnt/falck/" \o NameTable[k].base \o "-" \o fnv1a_hash(k)
lima_mount_target(k) == "/mnt/falck-" \o NameTable[k].base \o "-" \o fnv1a_hash(k)
lima_legacy_mount_target(k) == "/mnt/falck/" \o NameTable[k].base \o "-" \o fnv1a_hash(k)

\* the characters of lima_mount_target(repo_path)
SanitizedChars(q) ==
    LET trimmed == TrimDashes(Dashed(q, FALSE))
    IN  IF trimmed = <<>> THEN <<"r", "e", "p", "o">> ELSE trimmed
Hex4Chars(n) ==
    <<HexDigit(n \div 4096), HexDigit((n \div 256) % 16),
      HexDigit((n \div 16) % 16), HexDigit(n % 16)>>
Hex8Chars(h) == Hex4Chars(h[1]) \o Hex4Chars(h[2])
lima_mount_target_chars(k) ==
    <<"/", "m", "n", "t", "/", "f", "a", "l", "c", "k", "-">>
        \o SanitizedChars(FileNameChars(k)) \o <<"-">>
        \o Hex8Chars(FnvOver(FnvOffsetLow, PathChars(k)))

\* yq_quote: serde_json::to_string of a string, the quote and the backslash
\* escaped with a backslash
RECURSIVE JsonEscape(_)
JsonEscape(q) ==
    IF q = <<>> THEN <<>>
    ELSE (IF Head(q) \in {"\"", "\\"} THEN <<"\\", Head(q)>> ELSE <<Head(q)>>)
            \o JsonEscape(Tail(q))
yq_quote(q) == <<"\"">> \o JsonEscape(q) \o <<"\"">>

\* the string a JSON string literal stands for, as yq reads it
RECURSIVE JsonUnescape(_)
JsonUnescape(q) ==
    IF q = <<>> THEN <<>>
    ELSE IF Head(q) = "\\" /\ Len(q) > 1 THEN <<q[2]>> \o JsonUnescape(Tail(Tail(q)))
    ELSE <<Head(q)>> \o JsonUnescape(Tail(q))
json_string(q) == JsonUnescape(SubSeq(q, 2, Len(q) - 1))

\* repo_path.to_string_lossy().replace('\\', "/")
repo_location(k) ==
    [i \in DOMAIN PathChars(k) |-> IF PathChars(k)[i] = "\\" THEN "/" ELSE PathChars(k)[i]]

\* lima_mounts_yq(repo_path): `.mountInotify = true | .mounts = [{"location":
\* "~"}, {"location": <repo>, "mountPoint": <mount>, "writable": true}]`,
\* the values as they are written into the expression
lima_mounts_yq(k) ==
    [mountInotify |-> TRUE,
     mounts |-> <<[location |-> yq_quote(<<"~">>)],
                  [location |-> yq_quote(repo_location(k)),
                   mountPoint |-> yq_quote(lima_mount_target_chars(k)),
                   writable |-> TRUE]>>]

\* the mountPoint of the writable repo mount an expression declares
DeclaredMountPoint(expr) ==
    LET m == CHOOSE i \in DOMAIN expr.mounts :
                 "writable" \in DOMAIN expr.mounts[i] /\ expr.mounts[i].writable
    IN  Join(json_string(expr.mounts[m].mountPoint))

VmNames == {vm_name_for_repo(k) : k \in Keys}
NoName == ""

\* -------------------------------------------------------------- results
Ok(n) == [ok |-> TRUE, name |-> n, err |-> ""]
Err(e) == [ok |-> FALSE, name |-> NoName, err |-> e]
NoResult == [ok |-> FALSE, name |-> NoName, err |-> "<none>"]

\* BackendContext { mode, vm: Option<VmContext> }; vm = NoName is None
NoCtx == [mode |-> "none", vm |-> NoName, root |-> ""]
BackendContext_host == [mode |-> "Host", vm |-> NoName, root |-> ""]

\* EnsureState
EnsureFree == [st |-> "Free", result |-> NoResult]
EnsureRunning == [st |-> "Running", result |-> NoResult]
EnsureDone(r) == [st |-> "Done", result |-> r]

\* ------------------------------------------------------------- commands
\* kind "proc" is a spawned process, kind "fs" a filesystem call of the
\* program itself; timeout is in seconds, NoTimeout for status()/output().
Cmd(n, k, to, target) == [name |-> n, kind |-> k, timeout |-> to, target |-> target]
NoCmd == Cmd("none", "none", NoTimeout, NoName)

LifecycleCmds ==
    {"limactl start", "limactl create", "limactl stop", "limactl delete",
     "limactl stop --force", "limactl delete --force", "remove_dir_all",
     "wsl -d", "wsl --install", "wsl --terminate", "wsl --unregister",
     "bootstrap"}

\* StoredContainer as far as the lifecycle goes: the id is fixed by the
\* repository, the VM and the container name; present = FALSE is no record
NoRecord == [present |-> FALSE, created_at |-> 0, last_used |-> 0]

\* --------------------------------------------------------- thread state
IdleThread ==
    [pc |-> "idle", op |-> "none", key |-> NoKey, name |-> NoName,
     leader |-> FALSE, entry |-> 0,
     res |-> NoResult, ret |-> NoResult, ctx |-> NoCtx,
     ports |-> <<>>, existing |-> {}, missing |-> <<>>,
     cmd |-> NoCmd, cmds |-> <<>>, events |-> <<>>, probes |-> <<>>,
     touched |-> {}, existed |-> FALSE, replies |-> <<>>, record |-> NoRecord,
     handle |-> 0, apps |-> {}]

\* A thread about to return only drops its locals; that step commutes with
\* every step of the other threads and is taken first.
Returning(u) == th[u].pc \in {"evr_return", "return"}
Scheduled(t) == \A u \in Threads : Returning(u) => u = t

\* a step of thread t: its record changes in the fields of r
Upd(t, r) == Scheduled(t) /\ th' = [th EXCEPT ![t] = r @@ @]

Busy(t) == th[t].cmd # NoCmd

\* A comparison of two runs keeps its book in guest.twin: which run this
\* is, the app handle of the run, and the replies the first run was given.
Twinned == "twin" \in DOMAIN guest

\* The container store, where a behaviour keeps one, is guest.store: the
\* record of the one container id, the clock of now_timestamp(), and
\* whether the last successful launch of the id came after the last
\* successful delete_container.
Stored == "store" \in DOMAIN guest
NoStore == [rec |-> NoRecord, now |-> 0, live |-> FALSE]

\* the app handle of the call: "delivering", "failing" (app.emit returns an
\* error) or "none" (the caller passed None)
AppOf == IF Twinned THEN guest.twin.app ELSE "delivering"

\* most outcomes a command can have
MaxReplies == 4

\* Which of its possible outcomes a command will have is drawn when it is
\* issued, so that a second run can be given the replies of the first; a
\* number beyond the outcomes the command has stands for no reply at all.
NextReplies(t) ==
    IF ~Twinned THEN {0}
    ELSE IF guest.twin.run = 2 /\ Len(th[t].replies) < Len(guest.twin.tape)
         THEN {guest.twin.tape[Len(th[t].replies) + 1]}
         ELSE 1..MaxReplies

RECURSIVE Ordered(_)
Ordered(S) ==
    IF S = {} THEN <<>>
    ELSE LET x == CHOOSE y \in S : TRUE IN <<x>> \o Ordered(S \ {x})

\* the outcomes of S that the command in flight can have
Replies(t, S) ==
    IF th[t].replies = <<>> THEN S
    ELSE LET f == th[t].replies[Len(th[t].replies)]
         IN  IF f <= Cardinality(S) THEN {Ordered(S)[f]} ELSE {}

\* the thread issues an external command and waits for it; cmds is the
\* history of the commands the current call has issued
Issue(t, c) ==
    /\ ~Busy(t)
    /\ \E f \in NextReplies(t) :
          Upd(t, [cmd |-> c, cmds |-> Append(th[t].cmds, c.name),
                  replies |-> IF f = 0 THEN th[t].replies ELSE Append(th[t].replies, f)])
    /\ UNCHANGED <<inflight, entries, vmLock, vm, provider, mode, guest>>

\* emit_vm_status / emit_container_status: without a handle nothing is
\* sent, and the result of app.emit is dropped (let _ = app.emit(..)); the
\* thread's event trace holds the phases that were delivered
Delivered(phases) == IF AppOf = "delivering" THEN phases ELSE <<>>
emit_vm_status(t, phases) == th[t].events \o Delivered(phases)

Goto_emit_checked(t, next, phases) ==
    IF AppOf = "failing" /\ phases # <<>>
    THEN Upd(t, [pc |-> "return", cmd |-> NoCmd, ret |-> Err("Failed to emit status"),
                 res |-> Err("Failed to emit status")])
    ELSE Upd(t, [pc |-> next, cmd |-> NoCmd, events |-> emit_vm_status(t, phases)])
Goto(t, next, phases) ==
    Upd(t, [pc |-> next, cmd |-> NoCmd, events |-> emit_vm_status(t, phases)])

\* ------------------------------------------------------------ guest mounts
\* A guest as the shell probes see it: for each path the attempt of a retry
\* loop from which `test -d` (ex) and the write test (wr) succeed, and what
\* `printf %s "$HOME"` gives.
\* containers: how many containers bear the name of the repository's app.
NoGuest ==
    [ex |-> [p \in {} |-> 0], wr |-> [p \in {} |-> 0], home |-> "",
     containers |-> [k \in Keys |-> 0]]

\* --------------------------------------------------- provider environment
\* An instance is registered (known to `limactl list` / `wsl -l`), running,
\* and has a local instance directory.  Each operator gives the outcomes a
\* command can have: [ok, v] with v the instance afterwards.
NoVm == [reg |-> FALSE, run |-> FALSE, dir |-> FALSE, fwd |-> {}]

\* `limactl start <name>`: Ok on success or on "already running"
limactl_start_env(v) ==
    IF v.reg THEN {[ok |-> TRUE, v |-> [v EXCEPT !.run = TRUE]], [ok |-> FALSE, v |-> v]}
    ELSE {[ok |-> FALSE, v |-> v]}

\* `limactl create --name <name>`: refuses an existing instance directory;
\* a failed create may leave a directory behind
limactl_create_env(v) ==
    IF v.dir THEN {[ok |-> FALSE, v |-> v]}
    ELSE {[ok |-> TRUE, v |-> [reg |-> TRUE, run |-> FALSE, dir |-> TRUE, fwd |-> {}]],
          [ok |-> FALSE, v |-> v],
          [ok |-> FALSE, v |-> [v EXCEPT !.dir = TRUE]]}

\* `limactl stop <name>` / `wsl --terminate <name>`
stop_env(v) ==
    IF v.reg THEN {[ok |-> TRUE, v |-> [v EXCEPT !.run = FALSE]], [ok |-> FALSE, v |-> v]}
    ELSE {[ok |-> FALSE, v |-> v]}

\* `wsl --unregister <name>`
delete_env(v) ==
    IF v.reg THEN {[ok |-> TRUE, v |-> NoVm], [ok |-> FALSE, v |-> v]}
    ELSE {[ok |-> FALSE, v |-> v]}

\* `limactl delete <name>`: removes a registered instance with its
\* directory; an instance it does not know is either an error or passed
\* over with a warning and exit status 0, whatever lies in its directory
limactl_delete_env(v) ==
    IF v.reg THEN {[ok |-> TRUE, v |-> NoVm], [ok |-> FALSE, v |-> v]}
    ELSE {[ok |-> TRUE, v |-> v], [ok |-> FALSE, v |-> v]}

\* `limactl delete --force <name>`
delete_force_env(v) ==
    {[ok |-> TRUE, v |-> NoVm], [ok |-> FALSE, v |-> v]}
        \cup (IF v.reg THEN {} ELSE {[ok |-> TRUE, v |-> v]})

\* fs::remove_dir_all on the instance directory
remove_dir_env(v) == {[ok |-> TRUE, v |-> NoVm], [ok |-> FALSE, v |-> v]}

\* the readiness probe `sh -c true` succeeds only in a running guest
probe_env(v) == IF v.run THEN {TRUE, FALSE} ELSE {FALSE}

\* `wsl -d <name> -- true` starts a registered distribution
wsl_start_env(v) == limactl_start_env(v)

\* `wsl --install -d Ubuntu --name <name>`
wsl_install_env(v) ==
    {[ok |-> TRUE, v |-> [reg |-> TRUE, run |-> TRUE, dir |-> TRUE, fwd |-> {}]],
     [ok |-> FALSE, v |-> v]}

\* --------------------------------------------------------- error strings
E_Prereq == "is not installed. Configure it in Settings to enable the virtualized backend."
E_NotReady == "Timed out waiting for VM to become ready."
E_StartErrs == {"Lima failed to start the virtual machine."}
E_CreateErrs == {"Lima failed to create the virtual machine."}
E_Cleanup == "Failed to remove stale VM directory"
E_Bootstrap == "Failed to install required VM packages"
E_WslSpawn == "Failed to create WSL distribution: spawn error"
E_WslCreate == "WSL failed to create the virtual machine."
E_Stop == "Failed to stop virtual machine."
E_Delete == "Failed to delete virtual machine."

\* ----------------------------------------------------- ensure_vm_running
EnsurePcs ==
    {"evr_wait", "evr_finish", "evr_remove", "evr_return",
     "inner_prereq", "inner_lock",
     "lima_start1", "lima_ready1", "lima_list", "lima_stop", "lima_start2",
     "lima_ready2", "lima_cleanup", "lima_create", "lima_start3", "lima_ready3",
     "wsl_start", "wsl_ready1", "wsl_bootstrap1", "wsl_install", "wsl_ready2",
     "wsl_bootstrap2"}

LeaderPcs == EnsurePcs \ {"evr_wait", "evr_return"}

\* thread u is the leader of a call for key k that has not yet removed its
\* registry entry
LeaderActive(u, k) == th[u].key = k /\ th[u].leader /\ th[u].pc \in LeaderPcs

\* a caller enters an operation: the history of its previous call is reset
StartCall(t, opname, k, first) ==
    Upd(t, [IdleThread EXCEPT !.pc = first, !.op = opname, !.key = k,
                              !.name = vm_name_for_repo(k)])

\* `if !leader { ...; return entry.wait(); }`
is_follower_never(leader) == FALSE
is_follower(leader) == ~leader

\* the first Free object, as a fresh Arc<EnsureInFlight>
new_entry == CHOOSE e \in EntryIds : entries[e].st = "Free" /\
                 \A f \in EntryIds : entries[f].st = "Free" => e <= f

\* entry of ensure_vm_running: map.get(&key) / map.insert(key, entry) under
\* the registry mutex decides whether the caller leads or follows
RegistryLookup(t, opname, k) ==
    LET found == inflight[k] # 0
        e == IF found THEN inflight[k] ELSE new_entry
        leader == ~found
        follows == is_follower(leader)
    IN  /\ Upd(t, [IdleThread EXCEPT
                     !.op = opname, !.key = k, !.name = vm_name_for_repo(k),
                     !.leader = leader, !.entry = e,
                     !.touched = {"registry"},
                     !.events = IF follows THEN Delivered(<<"waiting">>) ELSE <<>>,
                     !.pc = IF follows THEN "evr_wait" ELSE "inner_prereq"])
        /\ inflight' = IF found THEN inflight ELSE [inflight EXCEPT ![k] = e]
        /\ entries' = IF found THEN entries ELSE [entries EXCEPT ![e] = EnsureRunning]

ensure_vm_running(t, k) ==
    /\ th[t].pc = "idle"
    /\ mode = "Virtualized"
    /\ RegistryLookup(t, "ensure_vm_running", k)
    /\ UNCHANGED <<vmLock, vm, provider, mode, guest>>

\* EnsureInFlight::wait: block until the state is Done, return a clone
EnsureInFlight_wait(t) ==
    /\ th[t].pc = "evr_wait"
    /\ entries[th[t].entry].st = "Done"
    /\ Upd(t, [res |-> entries[th[t].entry].result, pc |-> "evr_return"])
    /\ UNCHANGED <<inflight, entries, vmLock, vm, provider, mode, guest>>

\* EnsureInFlight::finish: publish the result and notify_all
EnsureInFlight_finish_rewrapped(e, r) ==
    [entries EXCEPT ![e] = EnsureDone(IF r.ok THEN r ELSE Err("VM ensure failed: " \o r.err))]
EnsureInFlight_finish(e, r) == [entries EXCEPT ![e] = EnsureDone(r)]

ensure_vm_running_finish(t) ==
    /\ th[t].pc = "evr_finish"
    /\ entries' = EnsureInFlight_finish(th[t].entry, th[t].res)
    /\ Upd(t, [pc |-> "evr_remove"])
    /\ UNCHANGED <<inflight, vmLock, vm, provider, mode, guest>>

\* the caller's Arc is dropped; the object is freed with its last reference
DropEntry(t) ==
    LET e == th[t].entry
    IN  IF e # 0 /\ (\A u \in Threads \ {t} : th[u].entry # e)
                 /\ (\A k \in Keys : inflight'[k] # e)
        THEN [entries EXCEPT ![e] = EnsureFree]
        ELSE entries

\* map.remove(&key) by the leader
registry_remove_skipped(k) == inflight
registry_remove(k) == [inflight EXCEPT ![k] = 0]

\* return of ensure_vm_running to its caller: a worker that called it
\* directly is done; resolve_backend and ensure_backend_for_repo pass an
\* error on with `?` and otherwise go on to resolve_repo_root
EnsureReturned(t) ==
    IF th[t].op = "ensure_vm_running" THEN Upd(t, IdleThread)
    ELSE IF ~th[t].res.ok
         THEN Upd(t, [pc |-> "return", ret |-> th[t].res, leader |-> FALSE, entry |-> 0])
         ELSE Upd(t, [pc |-> "rr_preferred", leader |-> FALSE, entry |-> 0,
                      events |-> emit_vm_status(t,
                          IF th[t].op = "ensure_backend_for_repo" THEN <<"checking">>
                          ELSE <<>>)])

\* the leader removes its entry and returns `result`; its Arc is dropped
ensure_vm_running_remove(t) ==
    /\ th[t].pc = "evr_remove"
    /\ inflight' = registry_remove(th[t].key)
    /\ entries' = DropEntry(t)
    /\ EnsureReturned(t)
    /\ UNCHANGED <<vmLock, vm, provider, mode, guest>>

ensure_vm_running_return(t) ==
    /\ th[t].pc = "evr_return"
    /\ UNCHANGED <<inflight, vmLock, vm, provider, mode, guest>>
    /\ entries' = DropEntry(t)
    /\ EnsureReturned(t)

\* ----------------------------------------------- ensure_vm_running_inner
\* return from ensure_vm_running_inner: the lock guard is dropped
InnerReturn_keeps_lock(t, r, phases) ==
    /\ Upd(t, [res |-> r, pc |-> "evr_finish", cmd |-> NoCmd,
               events |-> emit_vm_status(t, phases)])
    /\ UNCHANGED vmLock
InnerReturn_silent(t, r, phases) ==
    /\ Upd(t, [res |-> r, pc |-> "evr_finish", cmd |-> NoCmd])
    /\ vmLock' = IF vmLock = t THEN 0 ELSE vmLock
InnerReturn(t, r, phases) ==
    /\ Upd(t, [res |-> r, pc |-> "evr_finish", cmd |-> NoCmd,
               events |-> emit_vm_status(t, phases)])
    /\ vmLock' = IF vmLock = t THEN 0 ELSE vmLock

Target(t) == vm[th[t].name]
SetVm(t, v) == vm' = [vm EXCEPT ![th[t].name] = v]

\* ensure_prereq: command_exists("limactl") / check_wsl_available()
ensure_prereq(t) ==
    /\ th[t].pc = "inner_prereq"
    /\ \/ Issue(t, Cmd(IF provider = "Lima" THEN "which limactl" ELSE "wsl --status",
                       "proc", NoTimeout, NoName))
       \/ /\ Busy(t)
          /\ \E installed \in Replies(t, BOOLEAN) :
                IF installed THEN Goto(t, "inner_lock", <<>>) /\ UNCHANGED vmLock
                ELSE InnerReturn(t, Err(E_Prereq), <<"error">>)
          /\ UNCHANGED <<inflight, entries, vm, provider, mode, guest>>

\* vm_lock(): blocks until VM_OP_LOCK is free
vm_lock_free(t) == vmLock = 0

inner_vm_lock(t) ==
    /\ th[t].pc = "inner_lock"
    /\ vm_lock_free(t)
    /\ vmLock' = t
    /\ Upd(t, [pc |-> IF provider = "Lima" THEN "lima_start1" ELSE "wsl_start",
               touched |-> th[t].touched \cup {"vmlock"},
               events |-> emit_vm_status(t, <<"starting">>)])
    /\ UNCHANGED <<inflight, entries, vm, provider, mode, guest>>

limactl_start_cmd(t) == Cmd("limactl start", "proc", VM_START_TIMEOUT_SECS, th[t].name)
limactl_create_cmd(t) == Cmd("limactl create", "proc", VM_CREATE_TIMEOUT_SECS, th[t].name)
limactl_list_cmd(t) == Cmd("limactl list", "proc", NoTimeout, NoName)
limactl_stop_cmd(t) == Cmd("limactl stop", "proc", NoTimeout, th[t].name)
wsl_terminate_cmd(t) == Cmd("wsl --terminate", "proc", NoTimeout, th[t].name)
probe_cmd(t) == Cmd("shell true", "proc", VM_SHELL_TIMEOUT_SECS, th[t].name)
bootstrap_cmd(t) == Cmd("bootstrap", "proc", VM_BOOTSTRAP_TIMEOUT_SECS, th[t].name)
wsl_start_cmd(t) == Cmd("wsl -d", "proc", NoTimeout, th[t].name)
wsl_install_cmd(t) == Cmd("wsl --install", "proc", NoTimeout, th[t].name)
remove_dir_cmd(t) == Cmd("remove_dir_all", "fs", NoTimeout, th[t].name)

\* timeout_secs of every call of wait_for_vm_ready, and its sleep between
\* two probes, in seconds
VM_READY_TIMEOUT_SECS == 90
ReadySleepSecs == 1

\* A specification that measures the wait keeps a stopwatch in guest.clock:
\* now is start.elapsed() of the wait in progress (all waits are made under
\* the VM operation lock, so there is one at a time), ended[t] and ready[t]
\* are the elapsed time and the outcome with which the last wait of thread
\* t came to its end.
Timed == "clock" \in DOMAIN guest
NoClock == [now |-> 0, ended |-> [t \in Threads |-> 0], ready |-> [t \in Threads |-> FALSE]]

\* how long one probe can take: it answers at once or runs into the timeout
\* of spawn_with_timeout
ProbeSecs == IF Timed THEN {0, VM_SHELL_TIMEOUT_SECS} ELSE {0}

\* start.elapsed() after a probe that took d seconds; without a stopwatch a
\* failed probe stands for a whole wait that ran out
Elapsed(d) == IF Timed THEN guest.clock.now + d ELSE VM_READY_TIMEOUT_SECS + 1

\* wait_for_vm_ready, one pass of its loop: the probe's outcome is looked at
\* first, the elapsed time only after a failed probe
wait_for_vm_ready(ready, d) ==
    IF ready THEN "ready"
    ELSE IF Elapsed(d) > VM_READY_TIMEOUT_SECS THEN "timeout"
    ELSE "sleep"

\* the stopwatch after that pass
Tick(t, pass, d) ==
    guest' = IF ~Timed THEN guest
             ELSE IF pass = "sleep"
                  THEN [guest EXCEPT !.clock.now = Elapsed(d) + ReadySleepSecs]
                  ELSE [guest EXCEPT !.clock.now = 0,
                                     !.clock.ended[t] = Elapsed(d),
                                     !.clock.ready[t] = (pass = "ready")]

\* wait_for_vm_ready(provider, name, 90) followed by `return Ok(name)`
WaitReadyThenOk(t, here) ==
    /\ th[t].pc = here
    /\ \/ Issue(t, probe_cmd(t))
       \/ /\ Busy(t)
          /\ \E ready \in Replies(t, probe_env(Target(t))), d \in ProbeSecs :
                LET pass == wait_for_vm_ready(ready, d)
                IN  /\ Tick(t, pass, d)
                    /\ CASE pass = "ready" -> InnerReturn(t, Ok(th[t].name), <<>>)
                         [] pass = "timeout" -> InnerReturn(t, Err(E_NotReady), <<"error">>)
                         [] OTHER -> Goto(t, here, <<>>) /\ UNCHANGED vmLock
          /\ UNCHANGED <<inflight, entries, vm, provider, mode>>

\* first `limactl_start(&name, Some(repo_path), None).is_ok()`
lima_start1_skipped(t) ==
    /\ th[t].pc = "lima_start1"
    /\ Goto(t, "lima_list", <<>>)
    /\ UNCHANGED <<inflight, entries, vmLock, vm, provider, mode, guest>>
lima_start1_inverted(t) ==
    /\ th[t].pc = "lima_start1"
    /\ \/ Issue(t, limactl_start_cmd(t))
       \/ /\ Busy(t)
          /\ \E o \in Replies(t, limactl_start_env(Target(t))) :
                /\ SetVm(t, o.v)
                /\ IF ~o.ok THEN Goto(t, "lima_ready1", <<"waiting">>)
                   ELSE Goto(t, "lima_list", <<>>)
          /\ UNCHANGED <<inflight, entries, vmLock, provider, mode, guest>>
lima_start1(t) ==
    /\ th[t].pc = "lima_start1"
    /\ \/ Issue(t, limactl_start_cmd(t))
       \/ /\ Busy(t)
          /\ \E o \in Replies(t, limactl_start_env(Target(t))) :
                /\ SetVm(t, o.v)
                /\ IF o.ok THEN Goto(t, "lima_ready1", <<"waiting">>)
                   ELSE Goto(t, "lima_list", <<>>)
          /\ UNCHANGED <<inflight, entries, vmLock, provider, mode, guest>>

lima_ready1(t) == WaitReadyThenOk(t, "lima_ready1")

\* lima_instance_registered(&name): false when the list command fails or
\* its output cannot be parsed
lima_instance_registered(t) ==
    /\ th[t].pc = "lima_list"
    /\ \/ Issue(t, limactl_list_cmd(t))
       \/ /\ Busy(t)
          /\ \E registered \in Replies(t, {Target(t).reg, FALSE}) :
                IF registered THEN Goto(t, "lima_stop", <<"starting">>)
                ELSE Goto(t, "lima_cleanup", <<>>)
          /\ UNCHANGED <<inflight, entries, vmLock, vm, provider, mode, guest>>

\* `let _ = stop_vm_inner(provider, &name);`
lima_stop(t) ==
    /\ th[t].pc = "lima_stop"
    /\ \/ Issue(t, limactl_stop_cmd(t))
       \/ /\ Busy(t)
          /\ \E o \in Replies(t, stop_env(Target(t))) :
                SetVm(t, o.v) /\ Goto(t, "lima_start2", <<>>)
          /\ UNCHANGED <<inflight, entries, vmLock, provider, mode, guest>>

\* restart of an existing instance: the start error is re-wrapped
lima_start2(t) ==
    /\ th[t].pc = "lima_start2"
    /\ \/ Issue(t, limactl_start_cmd(t))
       \/ /\ Busy(t)
          /\ \E o \in Replies(t, limactl_start_env(Target(t))) :
                /\ SetVm(t, o.v)
                /\ IF o.ok THEN Goto(t, "lima_ready2", <<"waiting">>) /\ UNCHANGED vmLock
                   ELSE \E e \in E_StartErrs :
                          InnerReturn(t, Err("Lima failed to start the virtual machine: " \o e),
                                      <<"error">>)
          /\ UNCHANGED <<inflight, entries, provider, mode, guest>>

lima_ready2(t) == WaitReadyThenOk(t, "lima_ready2")

\* `if dir.exists() { cleanup_stale_lima_instance(&name) }`
lima_cleanup(t) ==
    /\ th[t].pc = "lima_cleanup"
    /\ \/ /\ ~Busy(t) /\ ~Target(t).dir
          /\ Goto(t, "lima_create", <<"creating">>)
          /\ UNCHANGED <<inflight, entries, vmLock, vm, provider, mode, guest>>
       \/ /\ Target(t).dir
          /\ Issue(t, remove_dir_cmd(t))
       \/ /\ Busy(t)
          /\ \E o \in Replies(t, remove_dir_env(Target(t))) :
                /\ SetVm(t, o.v)
                /\ IF o.ok THEN Goto(t, "lima_create", <<"starting", "creating">>)
                               /\ UNCHANGED vmLock
                   ELSE InnerReturn(t, Err(E_Cleanup), <<"starting", "error">>)
          /\ UNCHANGED <<inflight, entries, provider, mode, guest>>

\* limactl_create(&name, repo_path, None)
lima_create(t) ==
    /\ th[t].pc = "lima_create"
    /\ \/ Issue(t, limactl_create_cmd(t))
       \/ /\ Busy(t)
          /\ \E o \in Replies(t, limactl_create_env(Target(t))) :
                /\ SetVm(t, o.v)
                /\ IF o.ok THEN Goto(t, "lima_start3", <<"starting">>) /\ UNCHANGED vmLock
                   ELSE \E e \in E_CreateErrs : InnerReturn(t, Err(e), <<"error">>)
          /\ UNCHANGED <<inflight, entries, provider, mode, guest>>

\* start of the newly created instance: the start error is passed on
lima_start3(t) ==
    /\ th[t].pc = "lima_start3"
    /\ \/ Issue(t, limactl_start_cmd(t))
       \/ /\ Busy(t)
          /\ \E o \in Replies(t, limactl_start_env(Target(t))) :
                /\ SetVm(t, o.v)
                /\ IF o.ok THEN Goto(t, "lima_ready3", <<"waiting">>) /\ UNCHANGED vmLock
                   ELSE \E e \in E_StartErrs : InnerReturn(t, Err(e), <<"error">>)
          /\ UNCHANGED <<inflight, entries, provider, mode, guest>>

lima_ready3(t) == WaitReadyThenOk(t, "lima_ready3")


\* wait_for_vm_ready followed by ensure_vm_bootstrap (Wsl branch)
WaitReadyThenBootstrap(t, here, next) ==
    /\ th[t].pc = here
    /\ \/ Issue(t, probe_cmd(t))
       \/ /\ Busy(t)
          /\ \E ready \in Replies(t, probe_env(Target(t))), d \in ProbeSecs :
                LET pass == wait_for_vm_ready(ready, d)
                IN  /\ Tick(t, pass, d)
                    /\ CASE pass = "ready" ->
                                Goto(t, next, <<"bootstrapping">>) /\ UNCHANGED vmLock
                         [] pass = "timeout" -> InnerReturn(t, Err(E_NotReady), <<"error">>)
                         [] OTHER -> Goto(t, here, <<>>) /\ UNCHANGED vmLock
          /\ UNCHANGED <<inflight, entries, vm, provider, mode>>

\* ensure_vm_bootstrap(provider, &name) followed by `Ok(name)`
BootstrapThenOk(t, here) ==
    /\ th[t].pc = here
    /\ \/ Issue(t, bootstrap_cmd(t))
       \/ /\ Busy(t)
          /\ \E ok \in Replies(t, BOOLEAN) :
                IF ok THEN InnerReturn(t, Ok(th[t].name), <<>>)
                ELSE InnerReturn(t, Err(E_Bootstrap), <<"error">>)
          /\ UNCHANGED <<inflight, entries, vm, provider, mode, guest>>

\* `wsl -d <name> -- true` through Command::status()
wsl_start(t) ==
    /\ th[t].pc = "wsl_start"
    /\ \/ Issue(t, wsl_start_cmd(t))
       \/ /\ Busy(t)
          /\ \E o \in Replies(t, wsl_start_env(Target(t))) :
                /\ SetVm(t, o.v)
                /\ IF o.ok THEN Goto(t, "wsl_ready1", <<"waiting">>)
                   ELSE Goto(t, "wsl_install", <<"creating">>)
          /\ UNCHANGED <<inflight, entries, vmLock, provider, mode, guest>>

wsl_ready1(t) == WaitReadyThenBootstrap(t, "wsl_ready1", "wsl_bootstrap1")
wsl_bootstrap1(t) == BootstrapThenOk(t, "wsl_bootstrap1")

\* `wsl --install -d Ubuntu --name <name>` through Command::status()
wsl_install(t) ==
    /\ th[t].pc = "wsl_install"
    /\ \/ Issue(t, wsl_install_cmd(t))
       \/ /\ Busy(t)
          /\ \/ InnerReturn(t, Err(E_WslSpawn), <<"error">>) /\ UNCHANGED vm
             \/ \E o \in Replies(t, wsl_install_env(Target(t))) :
                   /\ SetVm(t, o.v)
                   /\ IF o.ok THEN Goto(t, "wsl_ready2", <<"waiting">>) /\ UNCHANGED vmLock
                      ELSE InnerReturn(t, Err(E_WslCreate), <<"error">>)
          /\ UNCHANGED <<inflight, entries, provider, mode, guest>>

wsl_ready2(t) == WaitReadyThenBootstrap(t, "wsl_ready2", "wsl_bootstrap2")
wsl_bootstrap2(t) == BootstrapThenOk(t, "wsl_bootstrap2")

\* ------------------------------------------------------ stop_vm, delete_vm
\* the event with which a public entry point reports its outcome
OutcomePhases(op, ok) ==
    CASE op = "resolve_backend" -> IF ok THEN <<>> ELSE <<"error">>
      [] op = "ensure_backend_for_repo" -> IF ok THEN <<"ready">> ELSE <<"error">>
      [] op = "stop_backend_for_repo" -> IF ok THEN <<"stopped">> ELSE <<"error">>
      [] op = "delete_repo_backend" -> IF ok THEN <<"deleted">> ELSE <<"error">>
      [] OTHER -> <<>>

\* the context that resolve_backend builds from the VM name and mount root
ContextOf_on_error_too(t, r) ==
    IF th[t].op \in {"resolve_backend", "ensure_backend_for_repo"}
    THEN [mode |-> "Virtualized", vm |-> th[t].name,
          root |-> IF th[t].op = "resolve_backend" THEN r.name ELSE ""]
    ELSE NoCtx
ContextOf(t, r) ==
    IF th[t].op \in {"resolve_backend", "ensure_backend_for_repo"} /\ r.ok
    THEN [mode |-> "Virtualized", vm |-> th[t].name,
          root |-> IF th[t].op = "resolve_backend" THEN r.name ELSE ""]
    ELSE NoCtx

\* return of an operation other than ensure_vm_running
OpReturn(t, r, phases) ==
    /\ Upd(t, [pc |-> "return", ret |-> r, ctx |-> ContextOf(t, r), cmd |-> NoCmd,
               events |-> emit_vm_status(t, phases \o OutcomePhases(th[t].op, r.ok))])
    /\ vmLock' = IF vmLock = t THEN 0 ELSE vmLock

\* the worker thread is done with its task
Return(t) ==
    /\ th[t].pc = "return"
    /\ Upd(t, IdleThread)
    /\ UNCHANGED <<inflight, entries, vmLock, vm, provider, mode, guest>>

\* stop_vm: `let _guard = vm_lock()?;`
stop_vm_lock(t) ==
    /\ th[t].pc = "stop_lock"
    /\ vm_lock_free(t)
    /\ vmLock' = t
    /\ Upd(t, [pc |-> "stop_inner", touched |-> th[t].touched \cup {"vmlock"}])
    /\ UNCHANGED <<inflight, entries, vm, provider, mode, guest>>

\* stop_vm_inner through Command::status()
stop_vm_inner(t) ==
    /\ th[t].pc = "stop_inner"
    /\ \/ Issue(t, IF provider = "Lima" THEN limactl_stop_cmd(t) ELSE wsl_terminate_cmd(t))
       \/ /\ Busy(t)
          /\ \E o \in Replies(t, stop_env(Target(t))) :
                /\ SetVm(t, o.v)
                /\ OpReturn(t, IF o.ok THEN Ok(NoName) ELSE Err(E_Stop), <<>>)
          /\ UNCHANGED <<inflight, entries, provider, mode, guest>>

delete_vm_lock(t) ==
    /\ th[t].pc = "delete_lock"
    /\ vm_lock_free(t)
    /\ vmLock' = t
    /\ Upd(t, [pc |-> IF provider = "Lima" THEN "delete_plain" ELSE "delete_unregister",
               touched |-> th[t].touched \cup {"vmlock"}])
    /\ UNCHANGED <<inflight, entries, vm, provider, mode, guest>>

\* run_delete(false)
delete_vm_plain(t) ==
    /\ th[t].pc = "delete_plain"
    /\ \/ Issue(t, Cmd("limactl delete", "proc", VM_START_TIMEOUT_SECS, th[t].name))
       \/ /\ Busy(t)
          /\ \E o \in Replies(t, limactl_delete_env(Target(t))) :
                /\ SetVm(t, o.v)
                /\ IF o.ok THEN OpReturn(t, Ok(NoName), <<>>)
                   ELSE Goto(t, "delete_force_stop", <<>>) /\ UNCHANGED vmLock
          /\ UNCHANGED <<inflight, entries, provider, mode, guest>>

\* `limactl stop --force` through Command::status(), result ignored
delete_vm_force_stop_skipped(t) ==
    /\ th[t].pc = "delete_force_stop"
    /\ Goto(t, "delete_force", <<>>)
    /\ UNCHANGED <<inflight, entries, vmLock, vm, provider, mode, guest>>
delete_vm_force_stop(t) ==
    /\ th[t].pc = "delete_force_stop"
    /\ \/ Issue(t, Cmd("limactl stop --force", "proc", NoTimeout, th[t].name))
       \/ /\ Busy(t)
          /\ \E o \in Replies(t, stop_env(Target(t))) :
                SetVm(t, o.v) /\ Goto(t, "delete_force", <<>>)
          /\ UNCHANGED <<inflight, entries, vmLock, provider, mode, guest>>

\* run_delete(true)
delete_vm_force(t) ==
    /\ th[t].pc = "delete_force"
    /\ \/ Issue(t, Cmd("limactl delete --force", "proc", VM_START_TIMEOUT_SECS, th[t].name))
       \/ /\ Busy(t)
          /\ \E o \in Replies(t, delete_force_env(Target(t))) :
                /\ SetVm(t, o.v)
                /\ OpReturn(t, IF o.ok THEN Ok(NoName) ELSE Err(E_Delete), <<>>)
          /\ UNCHANGED <<inflight, entries, provider, mode, guest>>

\* `wsl --unregister <name>` through Command::status()
delete_vm_unregister(t) ==
    /\ th[t].pc = "delete_unregister"
    /\ \/ Issue(t, Cmd("wsl --unregister", "proc", NoTimeout, th[t].name))
       \/ /\ Busy(t)
          /\ \E o \in Replies(t, delete_env(Target(t))) :
                /\ SetVm(t, o.v)
                /\ OpReturn(t, IF o.ok THEN Ok(NoName) ELSE Err(E_Delete), <<>>)
          /\ UNCHANGED <<inflight, entries, provider, mode, guest>>


\* ---------------------------------------------------------- specification
\* the states an instance can be in when the process starts: unregistered,
\* a stale directory left by a crash, stopped, running
VmStates ==
    {NoVm,
     [reg |-> FALSE, run |-> FALSE, dir |-> TRUE, fwd |-> {}],
     [reg |-> TRUE, run |-> FALSE, dir |-> TRUE, fwd |-> {}],
     [reg |-> TRUE, run |-> TRUE, dir |-> TRUE, fwd |-> {}]}

InitCommon ==
    /\ th = [t \in Threads |-> IdleThread]
    /\ inflight = [k \in Keys |-> 0]
    /\ entries = [e \in EntryIds |-> EnsureFree]
    /\ vmLock = 0
    /\ provider \in VmProvider

FollowerStep(t) ==
    \/ EnsureInFlight_wait(t)
    \/ ensure_vm_running_return(t)

LeaderStep(t) ==
    \/ ensure_vm_running_finish(t)
    \/ ensure_vm_running_remove(t)
    \/ ensure_prereq(t)
    \/ inner_vm_lock(t)

LimaStep(t) ==
    \/ lima_start1(t)
    \/ lima_ready1(t)
    \/ lima_instance_registered(t)
    \/ lima_stop(t)
    \/ lima_start2(t)
    \/ lima_ready2(t)
    \/ lima_cleanup(t)
    \/ lima_create(t)
    \/ lima_start3(t)
    \/ lima_ready3(t)

WslStep(t) ==
    \/ wsl_start(t)
    \/ wsl_ready1(t)
    \/ wsl_bootstrap1(t)
    \/ wsl_install(t)
    \/ wsl_ready2(t)
    \/ wsl_bootstrap2(t)

StopDeleteStep(t) ==
    \/ stop_vm_lock(t)
    \/ stop_vm_inner(t)
    \/ delete_vm_lock(t)
    \/ delete_vm_plain(t)
    \/ delete_vm_force_stop(t)
    \/ delete_vm_force(t)

\* ---------------------------------------------------- resolve_repo_root
Never == Retries + 1
Delays == {0, Retries, Never}
VmHome == "/home/u.linux"
HomeUnreadable == "<unreadable>"

\* repo_path.starts_with(&home), with HOME = HostHome
repo_under_home(k) == k = "/home/u/proj"

\* repo_path.strip_prefix(&home).unwrap_or(repo_path)
strip_home(k) ==
    CASE k = "/home/u/proj" -> "proj"
      [] OTHER -> k

join_unix(base, rel) == IF rel = "" THEN base ELSE base \o "/" \o rel

windows_path_to_wsl(k) ==
    CASE k = WinRepo -> "/mnt/c/proj"
      [] OTHER -> k

\* the messages quote the command with backquotes, written ' here
E_ReadOnly(name) ==
    "The VM mount for this repo is read-only. Use Settings > Reset VM (or 'limactl delete "
        \o name \o "') and try again."
E_NotMounted(name) ==
    "The repo path is not mounted inside the VM. Use Settings > Reset VM (or 'limactl delete "
        \o name \o "') and try again."

get_vm_home(g) ==
    IF g.home = HomeUnreadable THEN Err("Failed to read VM home directory.")
    ELSE IF g.home = "" THEN Err("VM home directory not available.")
    ELSE Ok(g.home)

\* one probe, made as attempt number `attempt` of a retry loop
path_exists_in_vm(g, path, attempt) == path \in DOMAIN g.ex /\ g.ex[path] <= attempt
path_writable_in_vm(g, path, attempt) == path \in DOMAIN g.wr /\ g.wr[path] <= attempt

\* `for attempt in 0..=retries`
path_exists_in_vm_with_retry(g, path, retries) ==
    \E attempt \in 0..retries : path_exists_in_vm(g, path, attempt)

path_writable_in_vm_unchecked(g, path, retries) == TRUE
path_writable_in_vm_with_retry(g, path, retries) ==
    \E attempt \in 0..retries : path_writable_in_vm(g, path, attempt)

\* the probes a retry loop makes: it stops at the first success
exists_attempts_no_stop(g, path, retries) == retries + 1
exists_attempts(g, path, retries) ==
    Cardinality({a \in 0..retries :
                    \A b \in 0..(a - 1) : ~path_exists_in_vm(g, path, b)})
writable_attempts(g, path, retries) ==
    Cardinality({a \in 0..retries :
                    \A b \in 0..(a - 1) : ~path_writable_in_vm(g, path, b)})

Repeat(x, n) == [i \in 1..n |-> x]

\* return of resolve_repo_root; resolve_backend and ensure_backend_for_repo
\* report the outcome and build their own result from it
ResolveReturn(t, r, log) ==
    /\ Upd(t, [pc |-> "return", ret |-> r, ctx |-> ContextOf(t, r),
               probes |-> th[t].probes \o log,
               events |-> emit_vm_status(t, OutcomePhases(th[t].op, r.ok))])
    /\ UNCHANGED vmLock

\* `if exists_with_retry(c) { if !writable_with_retry(c) { return Err(read-only) }
\*  return Ok(c) }`, else on to the next candidate
CheckCandidate(t, path, pre, next) ==
    LET e == path_exists_in_vm_with_retry(guest, path, Retries)
        w == path_writable_in_vm_with_retry(guest, path, Retries)
        log == pre \o Repeat("exists " \o path, exists_attempts(guest, path, Retries))
                   \o (IF e THEN Repeat("writable " \o path,
                                        writable_attempts(guest, path, Retries))
                       ELSE <<>>)
    IN  IF e
        THEN ResolveReturn(t, IF w THEN Ok(path) ELSE Err(E_ReadOnly(th[t].name)), log)
        ELSE IF next = "rr_notmounted"
             THEN ResolveReturn(t, Err(E_NotMounted(th[t].name)), log)
             ELSE Upd(t, [pc |-> next, probes |-> th[t].probes \o log]) /\ UNCHANGED vmLock

resolve_repo_root_preferred(t) ==
    /\ th[t].pc = "rr_preferred"
    /\ IF provider = "Wsl"
       THEN ResolveReturn(t, Ok(windows_path_to_wsl(th[t].key)), <<>>)
       ELSE CheckCandidate(t, lima_mount_target(th[t].key), <<>>, "rr_legacy")
    /\ UNCHANGED <<inflight, entries, vm, provider, mode, guest>>

resolve_repo_root_legacy(t) ==
    /\ th[t].pc = "rr_legacy"
    /\ CheckCandidate(t, lima_legacy_mount_target(th[t].key), <<>>, "rr_home")
    /\ UNCHANGED <<inflight, entries, vm, provider, mode, guest>>

\* `let vm_home = get_vm_home(provider, name)?;` and the home-relative
\* candidate, only for a repo under the host home
resolve_repo_root_home(t) ==
    /\ th[t].pc = "rr_home"
    /\ IF ~repo_under_home(th[t].key)
       THEN Upd(t, [pc |-> "rr_host"]) /\ UNCHANGED vmLock
       ELSE LET vm_home == get_vm_home(guest)
            IN  IF ~vm_home.ok THEN ResolveReturn(t, vm_home, <<"home">>)
                ELSE CheckCandidate(t, join_unix(vm_home.name, strip_home(th[t].key)),
                                    <<"home">>, "rr_host")
    /\ UNCHANGED <<inflight, entries, vm, provider, mode, guest>>

resolve_repo_root_host(t) ==
    /\ th[t].pc = "rr_host"
    /\ CheckCandidate(t, th[t].key, <<>>, "rr_notmounted")
    /\ UNCHANGED <<inflight, entries, vm, provider, mode, guest>>

ResolveStep(t) ==
    \/ resolve_repo_root_preferred(t)
    \/ resolve_repo_root_legacy(t)
    \/ resolve_repo_root_home(t)
    \/ resolve_repo_root_host(t)

\* ------------------------------------------------ ensure_vm_port_forwards
PortValues == {0, 3000, 8080}
PortLists == UNION {[1..n -> PortValues] : n \in 0..MaxPorts}

\* BTreeSet::into_iter().collect(): the elements in ascending order
SortedSeq(S) ==
    CHOOSE q \in [1..Cardinality(S) -> S] :
        \A i, j \in 1..Cardinality(S) : i < j => q[i] < q[j]

normalize_ports_keep_zero(ports) == SortedSeq({ports[i] : i \in DOMAIN ports})
normalize_ports(ports) == SortedSeq({ports[i] : i \in {j \in DOMAIN ports : ports[j] > 0}})

\* the guestPort entries of the instance's lima.yaml; none when the file
\* cannot be read
lima_forwarded_ports(v) == IF v.dir THEN v.fwd ELSE {}

SeqToSet(q) == {q[i] : i \in DOMAIN q}

\* `limactl start --set '.portForwards = (.portForwards // []) + [...]'`:
\* Ok on success or on "already running"; the edit of lima.yaml may or may
\* not have been applied when the start itself does not go through
limactl_start_ports_env(v, ports) ==
    LET edited == [v EXCEPT !.fwd = v.fwd \cup SeqToSet(ports)]
    IN  IF v.reg
        THEN {[ok |-> TRUE, v |-> [edited EXCEPT !.run = TRUE]],
              [ok |-> FALSE, v |-> v], [ok |-> FALSE, v |-> edited]}
             \cup (IF v.run THEN {[ok |-> TRUE, v |-> v]} ELSE {})
        ELSE {[ok |-> FALSE, v |-> v]}

\* entry of ensure_vm_port_forwards up to the decision to restart
\* Past the early returns the function reads only `missing`: the record of
\* a call that goes on to the restart keeps the normalised list `desired`
\* in place of the argument slice, and no longer keeps `existing`.
ensure_vm_port_forwards(t, k, ports) ==
    LET name == vm_name_for_repo(k)
        desired == normalize_ports(ports)
        reads == provider = "Lima" /\ desired # <<>>
        existing == IF reads THEN lima_forwarded_ports(vm[name]) ELSE {}
        missing == SelectSeq(desired, LAMBDA port : port \notin existing)
        noop == ~reads \/ missing = <<>>
    IN  /\ th[t].pc = "idle"
        /\ Upd(t, [IdleThread EXCEPT
                     !.op = "ensure_vm_port_forwards", !.key = k, !.name = name,
                     !.ports = IF noop THEN ports ELSE desired,
                     !.existing = IF noop THEN existing ELSE {},
                     !.missing = IF noop THEN <<>> ELSE missing,
                     !.pc = IF noop THEN "return" ELSE "pf_lock",
                     !.ret = IF noop THEN Ok(NoName) ELSE NoResult,
                     !.events = IF noop THEN <<>> ELSE Delivered(<<"stopping">>)])
        /\ UNCHANGED <<inflight, entries, vmLock, vm, provider, mode, guest>>

port_forwards_lock(t) ==
    /\ th[t].pc = "pf_lock"
    /\ vm_lock_free(t)
    /\ vmLock' = t
    /\ Upd(t, [pc |-> "pf_stop", touched |-> th[t].touched \cup {"vmlock"}])
    /\ UNCHANGED <<inflight, entries, vm, provider, mode, guest>>

\* `let _ = stop_vm_inner(vm.provider, &vm.name);`
port_forwards_stop_skipped(t) ==
    /\ th[t].pc = "pf_stop"
    /\ Goto(t, "pf_start", <<"starting">>)
    /\ UNCHANGED <<inflight, entries, vmLock, vm, provider, mode, guest>>
port_forwards_stop(t) ==
    /\ th[t].pc = "pf_stop"
    /\ \/ Issue(t, limactl_stop_cmd(t))
       \/ /\ Busy(t)
          /\ \E o \in Replies(t, stop_env(Target(t))) :
                SetVm(t, o.v) /\ Goto(t, "pf_start", <<"starting">>)
          /\ UNCHANGED <<inflight, entries, vmLock, provider, mode, guest>>

\* limactl_start(&vm.name, Some(&vm.repo_path), Some(&missing))
port_forwards_start(t) ==
    /\ th[t].pc = "pf_start"
    /\ \/ Issue(t, limactl_start_cmd(t))
       \/ /\ Busy(t)
          /\ \E o \in Replies(t, limactl_start_ports_env(Target(t), th[t].missing)) :
                /\ SetVm(t, o.v)
                /\ IF o.ok THEN Goto(t, "pf_ready", <<"waiting">>) /\ UNCHANGED vmLock
                   ELSE \E e \in E_StartErrs : OpReturn(t, Err(e), <<"error">>)
          /\ UNCHANGED <<inflight, entries, provider, mode, guest>>

\* wait_for_vm_ready(vm.provider, &vm.name, 90)
port_forwards_ready(t) ==
    /\ th[t].pc = "pf_ready"
    /\ \/ Issue(t, probe_cmd(t))
       \/ /\ Busy(t)
          /\ \E ready \in Replies(t, probe_env(Target(t))), d \in ProbeSecs :
                LET pass == wait_for_vm_ready(ready, d)
                IN  /\ Tick(t, pass, d)
                    /\ CASE pass = "ready" -> OpReturn(t, Ok(NoName), <<"ready">>)
                         [] pass = "timeout" -> OpReturn(t, Err(E_NotReady), <<"error">>)
                         [] OTHER -> Goto(t, "pf_ready", <<>>) /\ UNCHANGED vmLock
          /\ UNCHANGED <<inflight, entries, vm, provider, mode>>

PortForwardStep(t) ==
    \/ port_forwards_lock(t)
    \/ port_forwards_stop(t)
    \/ port_forwards_start(t)
    \/ port_forwards_ready(t)

\* ------------------------------------------------- backend entry points
\* storage::get_backend_mode_raw(app): opens the database and selects the
\* backend_mode row of the settings table; the row holds a mode in every
\* state of the model
get_backend_mode_raw_cached ==
    IF "calls" \in DOMAIN guest /\ guest.calls.cur \in BackendMode THEN guest.calls.cur
    ELSE mode
get_backend_mode_raw == mode

\* storage::get_backend_mode(app): the persisted mode
get_backend_mode == get_backend_mode_raw

\* storage::set_backend_mode(app, mode)
set_backend_mode(m) ==
    /\ mode' = m
    /\ UNCHANGED <<th, inflight, entries, vmLock, vm, provider, guest>>

\* `if mode == BackendMode::Host { return Ok(..) }`
is_host_never(m) == FALSE
is_host(m) == m = "Host"

\* the early return of an entry point in Host mode
HostReturn(t, opname, k, ctx) ==
    /\ Upd(t, [IdleThread EXCEPT !.op = opname, !.key = k, !.pc = "return",
                                 !.ret = Ok(NoName), !.ctx = ctx])
    /\ UNCHANGED <<inflight, entries>>

\* A specification that compares successive calls keeps in guest.calls the
\* mode the current call of resolve_backend has read (cur) and the mode the
\* call before it had read (prev).
NoCalls == [prev |-> "none", cur |-> "none"]
NoteMode(m) ==
    guest' = IF "calls" \in DOMAIN guest
             THEN [guest EXCEPT !.calls = [prev |-> guest.calls.cur, cur |-> m]]
             ELSE guest

resolve_backend(t, k) ==
    /\ th[t].pc = "idle"
    /\ IF is_host(get_backend_mode) THEN HostReturn(t, "resolve_backend", k, BackendContext_host)
       ELSE RegistryLookup(t, "resolve_backend", k)
    /\ NoteMode(get_backend_mode)
    /\ UNCHANGED <<vmLock, vm, provider, mode>>

\* BackendEnsureResult { mode, vm_name: None, provider: None } in Host mode
ensure_backend_for_repo(t, k) ==
    /\ th[t].pc = "idle"
    /\ IF is_host(get_backend_mode)
       THEN HostReturn(t, "ensure_backend_for_repo", k, BackendContext_host)
       ELSE RegistryLookup(t, "ensure_backend_for_repo", k)
    /\ UNCHANGED <<vmLock, vm, provider, mode, guest>>

stop_backend_for_repo(t, k) ==
    /\ th[t].pc = "idle"
    /\ IF is_host(get_backend_mode) THEN HostReturn(t, "stop_backend_for_repo", k, NoCtx)
       ELSE StartCall(t, "stop_backend_for_repo", k, "sb_registered")
            /\ UNCHANGED <<inflight, entries>>
    /\ UNCHANGED <<vmLock, vm, provider, mode, guest>>

\* lima_instance_registered / wsl_instance_registered, then
\* `if !exists { return Ok(()) }`
stop_backend_registered(t) ==
    /\ th[t].pc = "sb_registered"
    /\ \/ Issue(t, Cmd(IF provider = "Lima" THEN "limactl list" ELSE "wsl -l",
                       "proc", NoTimeout, NoName))
       \/ /\ Busy(t)
          /\ \E exists \in Replies(t, {Target(t).reg, FALSE}) :
                IF exists THEN Goto(t, "stop_lock", <<"stopping">>)
                ELSE Upd(t, [pc |-> "return", ret |-> Ok(NoName), cmd |-> NoCmd])
          /\ UNCHANGED <<inflight, entries, vmLock, vm, provider, mode, guest>>

delete_repo_backend(t, k) ==
    /\ th[t].pc = "idle"
    /\ IF is_host(get_backend_mode) THEN HostReturn(t, "delete_repo_backend", k, NoCtx)
       ELSE Upd(t, [IdleThread EXCEPT !.op = "delete_repo_backend", !.key = k,
                                      !.name = vm_name_for_repo(k), !.pc = "delete_lock",
                                      !.events = Delivered(<<"deleting">>)])
            /\ UNCHANGED <<inflight, entries>>
    /\ UNCHANGED <<vmLock, vm, provider, mode, guest>>

\* -------------------------------------- containers.rs: VM start and mounts
c_list_cmd(t) == Cmd("limactl list", "proc", NoTimeout, NoName)
c_start_cmd(t) == Cmd("limactl start", "proc", NoTimeout, th[t].name)
c_create_cmd(t) == Cmd("limactl create", "proc", NoTimeout, th[t].name)
c_stop_cmd(t) == Cmd("limactl stop", "proc", NoTimeout, th[t].name)
c_test_cmd(t) == Cmd("shell test -w", "proc", NoTimeout, th[t].name)

\* `test -w <mount>` inside the guest
test_writable_env(v) == IF v.run THEN {TRUE, FALSE} ELSE {FALSE}

\* launch_container(app, spec) for the VM of repo k
launch_container(t, k) ==
    /\ th[t].pc = "idle"
    /\ Upd(t, [IdleThread EXCEPT !.pc = "c_list", !.op = "launch_container", !.key = k,
                                 !.name = vm_name_for_repo(k),
                                 !.existed = guest.containers[k] > 0])
    /\ UNCHANGED <<inflight, entries, vmLock, vm, provider, mode, guest>>

\* what follows ensure_vm_running(app, limactl, vm, ctx)? in its caller,
\* and the status the caller emits next
AfterEnsure(t) ==
    CASE th[t].op = "start_container" -> "s_start"
      [] th[t].op = "stop_container" -> "s_stop"
      [] th[t].op = "delete_container" -> "s_rm"
      [] OTHER -> "c_mount_test1"
EnsurePhases(t) ==
    CASE th[t].op = "start_container" -> <<"starting">>
      [] th[t].op \in {"stop_container", "delete_container"} -> <<"stopping">>
      [] OTHER -> <<"building">>

\* containers::ensure_vm_running: `limactl list --json`, then the decision
\* on vm_exists / vm_running; a failed or unparsable list reads as absent
c_ensure_list(t) ==
    /\ th[t].pc = "c_list"
    /\ \/ Issue(t, c_list_cmd(t))
       \/ /\ Busy(t)
          /\ \E seen \in Replies(t, {Target(t).reg, FALSE}) :
                IF seen /\ Target(t).run THEN Goto(t, AfterEnsure(t), EnsurePhases(t))
                ELSE IF seen THEN Goto(t, "c_start_existing", <<>>)
                ELSE Goto(t, "c_create", <<>>)
          /\ UNCHANGED <<inflight, entries, vmLock, vm, provider, mode, guest>>

\* `limactl start --mount-writable` of an existing instance
c_ensure_start_existing(t) ==
    /\ th[t].pc = "c_start_existing"
    /\ \/ Issue(t, c_start_cmd(t))
       \/ /\ Busy(t)
          /\ \E o \in Replies(t, limactl_start_env(Target(t))) :
                /\ SetVm(t, o.v)
                /\ IF o.ok THEN Goto(t, AfterEnsure(t), EnsurePhases(t)) /\ UNCHANGED vmLock
                   ELSE OpReturn(t, Err("Failed to start Lima VM"), <<>>)
          /\ UNCHANGED <<inflight, entries, provider, mode, guest>>

\* `limactl create --name <vm> ... <template>`
c_ensure_create(t) ==
    /\ th[t].pc = "c_create"
    /\ \/ Issue(t, c_create_cmd(t))
       \/ /\ Busy(t)
          /\ \E o \in Replies(t, limactl_create_env(Target(t))) :
                /\ SetVm(t, o.v)
                /\ IF o.ok THEN Goto(t, "c_start_new", <<>>)
                   ELSE Goto(t, "c_start_fallback", <<>>)
          /\ UNCHANGED <<inflight, entries, vmLock, provider, mode, guest>>

\* after a failed create: plain `limactl start`, else "Failed to create"
c_ensure_start_fallback(t) ==
    /\ th[t].pc = "c_start_fallback"
    /\ \/ Issue(t, c_start_cmd(t))
       \/ /\ Busy(t)
          /\ \E o \in Replies(t, limactl_start_env(Target(t))) :
                /\ SetVm(t, o.v)
                /\ IF o.ok THEN Goto(t, AfterEnsure(t), EnsurePhases(t)) /\ UNCHANGED vmLock
                   ELSE OpReturn(t, Err("Failed to create Lima VM"), <<>>)
          /\ UNCHANGED <<inflight, entries, provider, mode, guest>>

\* start of the newly created instance
c_ensure_start_new(t) ==
    /\ th[t].pc = "c_start_new"
    /\ \/ Issue(t, c_start_cmd(t))
       \/ /\ Busy(t)
          /\ \E o \in Replies(t, limactl_start_env(Target(t))) :
                /\ SetVm(t, o.v)
                /\ IF o.ok THEN Goto(t, AfterEnsure(t), EnsurePhases(t)) /\ UNCHANGED vmLock
                   ELSE OpReturn(t, Err("Failed to start Lima VM"), <<>>)
          /\ UNCHANGED <<inflight, entries, provider, mode, guest>>

\* ensure_mount_writable: first `test -w`
ensure_mount_writable_test1(t) ==
    /\ th[t].pc = "c_mount_test1"
    /\ \/ Issue(t, c_test_cmd(t))
       \/ /\ Busy(t)
          /\ \E w \in Replies(t, test_writable_env(Target(t))) :
                IF w THEN Goto(t, "c_rm", <<>>) /\ UNCHANGED vmLock
                ELSE Goto(t, "c_mount_stop", <<>>) /\ UNCHANGED vmLock
          /\ UNCHANGED <<inflight, entries, vm, provider, mode, guest>>

\* ensure_mount_writable: `limactl stop <vm>`
ensure_mount_writable_stop_ignored(t) ==
    /\ th[t].pc = "c_mount_stop"
    /\ \/ Issue(t, c_stop_cmd(t))
       \/ /\ Busy(t)
          /\ \E o \in Replies(t, stop_env(Target(t))) :
                SetVm(t, o.v) /\ Goto(t, "c_mount_start", <<>>) /\ UNCHANGED vmLock
          /\ UNCHANGED <<inflight, entries, provider, mode, guest>>
ensure_mount_writable_stop(t) ==
    /\ th[t].pc = "c_mount_stop"
    /\ \/ Issue(t, c_stop_cmd(t))
       \/ /\ Busy(t)
          /\ \E o \in Replies(t, stop_env(Target(t))) :
                /\ SetVm(t, o.v)
                /\ IF o.ok THEN Goto(t, "c_mount_start", <<>>) /\ UNCHANGED vmLock
                   ELSE OpReturn(t, Err("Failed to stop Lima VM"), <<>>)
          /\ UNCHANGED <<inflight, entries, provider, mode, guest>>

\* ensure_mount_writable: `limactl start --mount-writable <vm>`
ensure_mount_writable_start(t) ==
    /\ th[t].pc = "c_mount_start"
    /\ \/ Issue(t, c_start_cmd(t))
       \/ /\ Busy(t)
          /\ \E o \in Replies(t, limactl_start_env(Target(t))) :
                /\ SetVm(t, o.v)
                /\ IF o.ok THEN Goto(t, "c_mount_test2", <<>>) /\ UNCHANGED vmLock
                   ELSE OpReturn(t, Err("Failed to restart Lima VM"), <<>>)
          /\ UNCHANGED <<inflight, entries, provider, mode, guest>>

\* ensure_mount_writable: second `test -w`
ensure_mount_writable_test2(t) ==
    /\ th[t].pc = "c_mount_test2"
    /\ \/ Issue(t, c_test_cmd(t))
       \/ /\ Busy(t)
          /\ \E w \in Replies(t, test_writable_env(Target(t))) :
                IF w THEN Goto(t, "c_rm", <<>>) /\ UNCHANGED vmLock
                ELSE OpReturn(t, Err("Repo mount is still read-only"), <<>>)
          /\ UNCHANGED <<inflight, entries, vm, provider, mode, guest>>

\* ------------------------------------------------- container launch
CONTAINER_BUILD_TIMEOUT_SECS == 600

\* docker_container_name_for_app(repo_path, app_id) / spec.name, for the
\* one app ("web") of the repository
container_name(k) ==
    "falck-" \o NameTable[k].base \o "-" \o sanitize_name(<<"w", "e", "b">>) \o "-"
        \o NameTable[k].apphash

\* `nerdctl rm -f <name>`: removes every container of that name; Ok also
\* when there is none
nerdctl_rm_env(n) == {[ok |-> TRUE, n |-> 0], [ok |-> FALSE, n |-> n]}

\* `nerdctl run -d --name <name>`: the runtime refuses a name in use; a
\* run that fails after the create leaves the container behind
nerdctl_run_env(n) ==
    IF n > 0 THEN {[ok |-> FALSE, n |-> n]}
    ELSE {[ok |-> TRUE, n |-> 1], [ok |-> FALSE, n |-> 0], [ok |-> FALSE, n |-> 1]}

SetContainers(t, n) == guest' = [guest EXCEPT !.containers[th[t].key] = n]

\* launch_container: `let _ = nerdctl_command(.., ["rm", "-f", name]).status();`
launch_container_cleanup(t) ==
    /\ th[t].pc = "c_rm"
    /\ \/ Issue(t, Cmd("nerdctl rm -f", "proc", NoTimeout, container_name(th[t].key)))
       \/ /\ Busy(t)
          /\ \E o \in Replies(t, nerdctl_rm_env(guest.containers[th[t].key])) :
                SetContainers(t, o.n) /\ Goto(t, "c_build", <<>>)
          /\ UNCHANGED <<inflight, entries, vmLock, vm, provider, mode>>

\* launch_container: `nerdctl build` through run_command_with_logs
launch_container_build(t) ==
    /\ th[t].pc = "c_build"
    /\ \/ Issue(t, Cmd("nerdctl build", "proc", NoTimeout, container_name(th[t].key)))
       \/ /\ Busy(t)
          /\ \E ok \in Replies(t, BOOLEAN) :
                IF ok THEN Goto(t, "c_run", <<"starting">>) /\ UNCHANGED vmLock
                ELSE OpReturn(t, Err("Container build failed"), <<>>)
          /\ UNCHANGED <<inflight, entries, vm, provider, mode, guest>>

\* launch_container: `nerdctl run -d --name <name>`
launch_container_run(t) ==
    /\ th[t].pc = "c_run"
    /\ \/ Issue(t, Cmd("nerdctl run", "proc", NoTimeout, container_name(th[t].key)))
       \/ /\ Busy(t)
          /\ \E o \in Replies(t, nerdctl_run_env(guest.containers[th[t].key])) :
                /\ SetContainers(t, o.n)
                /\ IF o.ok /\ Stored THEN Goto(t, "c_record", <<>>) /\ UNCHANGED vmLock
                   ELSE OpReturn(t, IF o.ok THEN Ok(container_name(th[t].key))
                                    ELSE Err("Container failed to start"), <<>>)
          /\ UNCHANGED <<inflight, entries, vm, provider, mode>>

\* storage::upsert_container: INSERT .. ON CONFLICT(id) DO UPDATE SET every
\* column but created_at
upsert_container(rec, container) ==
    IF rec.present THEN [container EXCEPT !.created_at = rec.created_at]
    ELSE container

\* storage::remove_container: DELETE FROM containers WHERE id = ?1
remove_container_row(rec) == NoRecord

SetStore(s) == guest' = [guest EXCEPT !.store = s]

\* now_timestamp() moves on between two calls
MaxNow == 1
Clock ==
    /\ Stored
    /\ guest.store.now < MaxNow
    /\ SetStore([guest.store EXCEPT !.now = @ + 1])
    /\ UNCHANGED <<th, inflight, entries, vmLock, vm, provider, mode>>

\* launch_container: the record of the launch, created_at = last_used =
\* now_timestamp(), upserted; a storage error is the error of the launch
launch_container_record(t) ==
    /\ th[t].pc = "c_record"
    /\ \E saved \in BOOLEAN :
          IF saved
          THEN /\ SetStore([guest.store EXCEPT
                      !.rec = upsert_container(@, [present |-> TRUE,
                                                   created_at |-> guest.store.now,
                                                   last_used |-> guest.store.now]),
                      !.live = TRUE])
               /\ OpReturn(t, Ok(container_name(th[t].key)), <<>>)
          ELSE /\ UNCHANGED guest
               /\ OpReturn(t, Err("storage error"), <<>>)
    /\ UNCHANGED <<inflight, entries, vm, provider, mode>>

\* start_container / stop_container / delete_container(app, id, vm, name):
\* the record of the id is looked up first (a storage error reads as None),
\* then the VM is ensured
ContainerCommand(t, k, op) ==
    /\ th[t].pc = "idle"
    /\ Stored
    /\ \E rec \in {guest.store.rec, NoRecord} :
          Upd(t, [IdleThread EXCEPT !.pc = "c_list", !.op = op, !.key = k,
                                    !.name = vm_name_for_repo(k), !.record = rec,
                                    !.existed = guest.containers[k] > 0])
    /\ UNCHANGED <<inflight, entries, vmLock, vm, provider, mode, guest>>
start_container(t, k) == ContainerCommand(t, k, "start_container")
stop_container(t, k) == ContainerCommand(t, k, "stop_container")
delete_container(t, k) == ContainerCommand(t, k, "delete_container")

\* `nerdctl start <name>` / `nerdctl stop <name>`: fails without a
\* container of that name
nerdctl_start_env(n) == IF n > 0 THEN {TRUE, FALSE} ELSE {FALSE}

\* start_container: `nerdctl start`; a record found at the start of the
\* call is written back with a new last_used
container_start(t) ==
    /\ th[t].pc = "s_start"
    /\ \/ Issue(t, Cmd("nerdctl start", "proc", NoTimeout, container_name(th[t].key)))
       \/ /\ Busy(t)
          /\ \E ok \in Replies(t, nerdctl_start_env(guest.containers[th[t].key])) :
                IF ~ok THEN OpReturn(t, Err("Failed to start container"), <<>>)
                ELSE IF th[t].record.present THEN Goto(t, "s_record", <<>>) /\ UNCHANGED vmLock
                ELSE OpReturn(t, Ok("Container started"), <<"running">>)
          /\ UNCHANGED <<inflight, entries, vm, provider, mode, guest>>

\* stop_container: `nerdctl stop`
container_stop(t) ==
    /\ th[t].pc = "s_stop"
    /\ \/ Issue(t, Cmd("nerdctl stop", "proc", NoTimeout, container_name(th[t].key)))
       \/ /\ Busy(t)
          /\ \E ok \in Replies(t, nerdctl_start_env(guest.containers[th[t].key])) :
                IF ~ok THEN OpReturn(t, Err("Failed to stop container"), <<>>)
                ELSE IF th[t].record.present THEN Goto(t, "s_record", <<>>) /\ UNCHANGED vmLock
                ELSE OpReturn(t, Ok("Container stopped"), <<"stopped">>)
          /\ UNCHANGED <<inflight, entries, vm, provider, mode, guest>>

\* `let _ = storage::upsert_container(&app, &record);` with
\* record = StoredContainer { last_used: now_timestamp(), ..existing }
container_refresh(t) ==
    /\ th[t].pc = "s_record"
    /\ \E saved \in BOOLEAN :
          IF saved
          THEN SetStore([guest.store EXCEPT
                   !.rec = upsert_container(@, [th[t].record EXCEPT
                                                   !.last_used = guest.store.now])])
          ELSE UNCHANGED guest
    /\ IF th[t].op = "start_container"
       THEN OpReturn(t, Ok("Container started"), <<"running">>)
       ELSE OpReturn(t, Ok("Container stopped"), <<"stopped">>)
    /\ UNCHANGED <<inflight, entries, vm, provider, mode>>

\* delete_container: `nerdctl rm -f <name>`
container_rm(t) ==
    /\ th[t].pc = "s_rm"
    /\ \/ Issue(t, Cmd("nerdctl rm -f", "proc", NoTimeout, container_name(th[t].key)))
       \/ /\ Busy(t)
          /\ \E o \in Replies(t, nerdctl_rm_env(guest.containers[th[t].key])) :
                /\ SetContainers(t, o.n)
                /\ IF o.ok THEN Goto(t, "s_remove", <<>>) /\ UNCHANGED vmLock
                   ELSE OpReturn(t, Err("Failed to remove container"), <<>>)
          /\ UNCHANGED <<inflight, entries, vm, provider, mode>>

\* delete_container: storage::remove_container(&app, &id)?
container_remove(t) ==
    /\ th[t].pc = "s_remove"
    /\ \E removed \in BOOLEAN :
          IF removed
          THEN /\ SetStore([guest.store EXCEPT !.rec = remove_container_row(@),
                                               !.live = FALSE])
               /\ OpReturn(t, Ok("Container removed"), <<"removed">>)
          ELSE /\ UNCHANGED guest
               /\ OpReturn(t, Err("storage error"), <<>>)
    /\ UNCHANGED <<inflight, entries, vm, provider, mode>>

StoreStep(t) ==
    \/ launch_container_record(t)
    \/ container_start(t)
    \/ container_stop(t)
    \/ container_refresh(t)
    \/ container_rm(t)
    \/ container_remove(t)

\* the dockerfile_path and context_path arguments of a launch
DockerfilePaths == {"", "Dockerfile"}
ContextPaths == {"", "."}

\* what a failing nerdctl command wrote to stdout and stderr, trimmed
OutputText == "FATA[0000] cannot access containerd socket"
Outputs == {"", OutputText}

\* run_dockerfile_container(app, vm, app_id, ..): provider and argument
\* checks
run_dockerfile_container_args(dockerfile_path, context_path) ==
    IF provider # "Lima" THEN "Dockerfile launches are only supported on Lima."
    ELSE IF dockerfile_path = "" THEN "Dockerfile path is empty."
    ELSE IF context_path = "" THEN "Docker build context is empty."
    ELSE ""

run_dockerfile_container(t, k, dockerfile_path, context_path) ==
    /\ th[t].pc = "idle"
    /\    LET refused == run_dockerfile_container_args(dockerfile_path, context_path)
          IN  IF refused # ""
              THEN Upd(t, [IdleThread EXCEPT
                              !.op = "run_dockerfile_container", !.key = k,
                              !.name = vm_name_for_repo(k), !.pc = "return",
                              !.existed = guest.containers[k] > 0,
                              !.ret = Err(refused)])
              ELSE Upd(t, [IdleThread EXCEPT
                              !.op = "run_dockerfile_container", !.key = k,
                              !.name = vm_name_for_repo(k), !.pc = "rd_sudo_exists",
                              !.existed = guest.containers[k] > 0])
    /\ UNCHANGED <<inflight, entries, vmLock, vm, provider, mode, guest>>

\* ensure_vm_sudo(vm): `command -v sudo`
ensure_vm_sudo_exists(t) ==
    /\ th[t].pc = "rd_sudo_exists"
    /\ \/ Issue(t, Cmd("shell command -v sudo", "proc", VM_SHELL_TIMEOUT_SECS, th[t].name))
       \/ /\ Busy(t)
          /\ \E ok \in Replies(t, BOOLEAN) :
                IF ok THEN Goto(t, "rd_sudo", <<>>) /\ UNCHANGED vmLock
                ELSE OpReturn(t, Err("sudo is required inside the VM to run containers."), <<>>)
          /\ UNCHANGED <<inflight, entries, vm, provider, mode, guest>>

\* ensure_vm_sudo(vm): `sudo -n true`
ensure_vm_sudo_skipped(t) ==
    /\ th[t].pc = "rd_sudo"
    /\ Goto(t, "rd_nerdctl", <<>>)
    /\ UNCHANGED <<inflight, entries, vmLock, vm, provider, mode, guest>>
ensure_vm_sudo(t) ==
    /\ th[t].pc = "rd_sudo"
    /\ \/ Issue(t, Cmd("shell sudo -n true", "proc", VM_SHELL_TIMEOUT_SECS, th[t].name))
       \/ /\ Busy(t)
          /\ \E ok \in Replies(t, BOOLEAN) :
                IF ok THEN Goto(t, "rd_nerdctl", <<>>) /\ UNCHANGED vmLock
                ELSE OpReturn(t, Err("sudo requires a password. Run: limactl shell "
                                         \o th[t].name \o " -- sudo -v"), <<>>)
          /\ UNCHANGED <<inflight, entries, vm, provider, mode, guest>>

\* nerdctl_exists(vm): `command -v nerdctl`
nerdctl_exists(t) ==
    /\ th[t].pc = "rd_nerdctl"
    /\ \/ Issue(t, Cmd("shell command -v nerdctl", "proc", VM_SHELL_TIMEOUT_SECS, th[t].name))
       \/ /\ Busy(t)
          /\ \E ok \in Replies(t, BOOLEAN) :
                IF ok THEN Goto(t, "rd_exists", <<>>) /\ UNCHANGED vmLock
                ELSE OpReturn(t, Err("nerdctl is not available in this Lima VM."), <<>>)
          /\ UNCHANGED <<inflight, entries, vm, provider, mode, guest>>

\* container_exists(vm, &container_name)?: `nerdctl ps -a`
container_exists_never(t) ==
    /\ th[t].pc = "rd_exists"
    /\ Goto(t, "rd_build", <<"bootstrapping">>)
    /\ UNCHANGED <<inflight, entries, vmLock, vm, provider, mode, guest>>
container_exists(t) ==
    /\ th[t].pc = "rd_exists"
    /\ \/ Issue(t, Cmd("nerdctl ps -a", "proc", VM_SHELL_TIMEOUT_SECS, th[t].name))
       \/ /\ Busy(t)
          /\ \E listed \in Replies(t, BOOLEAN) :
                IF ~listed THEN OpReturn(t, Err("Failed to list containers."), <<>>)
                ELSE IF guest.containers[th[t].key] > 0
                     THEN Goto(t, "rd_rm", <<"deleting">>) /\ UNCHANGED vmLock
                     ELSE Goto(t, "rd_build", <<"bootstrapping">>) /\ UNCHANGED vmLock
          /\ UNCHANGED <<inflight, entries, vm, provider, mode, guest>>

\* remove_container(vm, &container_name)?
remove_container(t) ==
    /\ th[t].pc = "rd_rm"
    /\ \/ Issue(t, Cmd("nerdctl rm -f", "proc", VM_SHELL_TIMEOUT_SECS,
                       container_name(th[t].key)))
       \/ /\ Busy(t)
          /\ \E o \in Replies(t, nerdctl_rm_env(guest.containers[th[t].key])) :
                /\ SetContainers(t, o.n)
                /\ IF o.ok THEN Goto(t, "rd_build", <<"bootstrapping">>) /\ UNCHANGED vmLock
                   ELSE OpReturn(t, Err("Failed to remove container."), <<>>)
          /\ UNCHANGED <<inflight, entries, vm, provider, mode>>

\* the message of a failed build: the command's output, or a fixed text
\* when there is none
build_error(combined) == IF combined = "" THEN "Docker build failed." ELSE combined

\* the message of a failed run
run_error(combined) ==
    IF combined = "" THEN "Failed to start Docker container." ELSE combined

\* `nerdctl build`: success, or failure with some output
nerdctl_build_env == {[ok |-> TRUE, out |-> ""]} \cup {[ok |-> FALSE, out |-> x] : x \in Outputs}

\* `nerdctl run -d --name <name>` with its output: a refusal or a failure
\* after the create reports on stderr
nerdctl_run_out_env(n) ==
    IF n > 0 THEN {[ok |-> FALSE, n |-> n, out |-> OutputText]}
    ELSE {[ok |-> TRUE, n |-> 1, out |-> ""], [ok |-> FALSE, n |-> 1, out |-> OutputText]}
            \cup {[ok |-> FALSE, n |-> 0, out |-> x] : x \in Outputs}

\* `nerdctl build -t <image>` with CONTAINER_BUILD_TIMEOUT_SECS
dockerfile_build(t) ==
    /\ th[t].pc = "rd_build"
    /\ \/ Issue(t, Cmd("nerdctl build", "proc", CONTAINER_BUILD_TIMEOUT_SECS,
                       container_name(th[t].key)))
       \/ /\ Busy(t)
          /\ \E o \in Replies(t, nerdctl_build_env) :
                IF o.ok THEN Goto(t, "rd_run", <<"starting">>) /\ UNCHANGED vmLock
                ELSE OpReturn(t, Err(build_error(o.out)), <<"error">>)
          /\ UNCHANGED <<inflight, entries, vm, provider, mode, guest>>

\* `nerdctl run -d --name <container_name> --net=host`
dockerfile_run(t) ==
    /\ th[t].pc = "rd_run"
    /\ \/ Issue(t, Cmd("nerdctl run", "proc", VM_START_TIMEOUT_SECS,
                       container_name(th[t].key)))
       \/ /\ Busy(t)
          /\ \E o \in Replies(t, nerdctl_run_out_env(guest.containers[th[t].key])) :
                /\ SetContainers(t, o.n)
                /\ IF o.ok THEN OpReturn(t, Ok(container_name(th[t].key)), <<"ready">>)
                   ELSE OpReturn(t, Err(run_error(o.out)), <<"error">>)
          /\ UNCHANGED <<inflight, entries, vm, provider, mode>>

DockerfileStep(t) ==
    \/ ensure_vm_sudo_exists(t)
    \/ ensure_vm_sudo(t)
    \/ nerdctl_exists(t)
    \/ container_exists(t)
    \/ remove_container(t)
    \/ dockerfile_build(t)
    \/ dockerfile_run(t)

ContainerStep(t) ==
    \/ launch_container_cleanup(t)
    \/ launch_container_build(t)
    \/ launch_container_run(t)
    \/ c_ensure_list(t)
    \/ c_ensure_start_existing(t)
    \/ c_ensure_create(t)
    \/ c_ensure_start_fallback(t)
    \/ c_ensure_start_new(t)
    \/ ensure_mount_writable_test1(t)
    \/ ensure_mount_writable_stop(t)
    \/ ensure_mount_writable_start(t)
    \/ ensure_mount_writable_test2(t)

\* ------------------------------------------------------------------ Spec
\* Callers of ensure_vm_running for one repo path racing on the
\* single-flight registry.
RepoA == "/home/u/proj"
RepoB == "/srv/app"

Init ==
    /\ InitCommon
    /\ vm \in {f \in [VmNames -> VmStates] : f[vm_name_for_repo(RepoB)] = NoVm}
    /\ mode = "Virtualized"
    /\ guest = NoGuest

Next ==
    \E t \in Threads :
        \/ ensure_vm_running(t, RepoA)
        \/ FollowerStep(t)
        \/ LeaderStep(t)
        \/ LimaStep(t)
        \/ WslStep(t)

Spec == Init /\ [][Next]_vars

\* ------------------------------------------------- single-flight claims
InnerPcs == LeaderPcs \ {"evr_finish", "evr_remove"}
Holders(e) == {t \in Threads : th[t].entry = e}
IsFollower(t) == th[t].op = "ensure_vm_running" /\ ~th[t].leader

\* C1: of the calls to ensure_vm_running that overlap on one repo key (the
\* holders of one EnsureInFlight object) exactly one, the leader, runs
\* ensure_vm_running_inner; every other holder only waits, and the value it
\* returns is the value the leader published and returns itself: the VM name
\* of the key on success, the leader's error string unchanged on failure.
\* A published result never changes while the object is alive.
C1_SingleFlight ==
    /\ [](\A e \in EntryIds :
            /\ Cardinality({t \in Holders(e) : th[t].leader}) <= 1
            /\ entries[e].st = "Running" =>
                  \E t \in Holders(e) : th[t].leader /\ th[t].pc \in LeaderPcs
            /\ \A t \in Holders(e) :
                  /\ th[t].pc \in InnerPcs \cup {"evr_finish"} =>
                        th[t].leader /\ entries[e].st = "Running"
                  /\ ~th[t].leader => th[t].pc \in {"evr_wait", "evr_return"}
                  /\ th[t].pc \in {"evr_return", "evr_remove"} =>
                        /\ entries[e] = EnsureDone(th[t].res)
                        /\ th[t].res.ok => th[t].res.name = vm_name_for_repo(th[t].key)
                        /\ ~th[t].res.ok => th[t].res.err # NoResult.err)
    /\ [][\A e \in EntryIds :
            entries[e].st = "Done" => entries'[e] \in {entries[e], EnsureFree}]_vars

\* a follower is about to return the error of a leader that is itself about
\* to return it
C1_Witness ==
    \E t, u \in Threads :
        /\ t # u /\ th[t].entry = th[u].entry
        /\ IsFollower(t) /\ th[t].pc = "evr_return" /\ ~th[t].res.ok
        /\ th[u].leader /\ th[u].pc = "evr_remove" /\ th[u].res = th[t].res

\* the step in which thread t enters ensure_vm_running
Enters(t) == th[t].pc = "idle" /\ th'[t].op = "ensure_vm_running"

\* C2 (as stated): a call that begins after the previous leader for its key
\* has published its result (the registered object is Done) becomes a new
\* leader; it never joins the finished object.
C2_AfterFinishLeads ==
    [][\A t \in Threads :
         (Enters(t) /\ inflight[th'[t].key] # 0
            /\ entries[inflight[th'[t].key]].st = "Done") => th'[t].leader]_vars

\* C2 (amended): a call that begins after the previous leader for its key
\* has removed its registry entry (no leader of that key is between insert
\* and remove) becomes a new leader, gets a fresh object and starts
\* ensure_vm_running_inner; a call that begins between the leader's finish
\* and its remove joins the finished object and returns its stored result.
C2_AfterRemoveLeads ==
    [][\A t \in Threads :
         Enters(t) =>
            LET k == th'[t].key
            IN  IF \A u \in Threads : ~LeaderActive(u, k)
                THEN /\ th'[t].leader /\ th'[t].pc = "inner_prereq"
                     /\ entries[th'[t].entry].st = "Free"
                     /\ entries'[th'[t].entry] = EnsureRunning
                ELSE /\ ~th'[t].leader /\ th'[t].entry = inflight[k]
                     /\ \A u \in Threads : LeaderActive(u, k) => th'[t].entry = th[u].entry]_vars

\* a new leader runs while a caller that joined the previous, finished
\* object has not yet returned its stored result
C2_Witness ==
    \E t, u \in Threads :
        /\ th[t].leader /\ th[t].pc \in InnerPcs
        /\ IsFollower(u) /\ th[u].key = th[t].key /\ th[u].entry # th[t].entry
        /\ entries[th[u].entry].st = "Done"

\* C3: a follower of ensure_vm_running never has an external command in
\* flight, never holds VM_OP_LOCK, and none of its steps changes the state
\* of a VM, the lock or the registry; it only waits and returns.
C3_FollowerPassive ==
    /\ [](\A t \in Threads :
            IsFollower(t) =>
               /\ th[t].cmd = NoCmd
               /\ vmLock # t
               /\ th[t].pc \in {"evr_wait", "evr_return"}
               /\ "vmlock" \notin th[t].touched)
    /\ [][\A t \in Threads :
            (IsFollower(t) /\ th'[t] # th[t]) =>
               /\ vm' = vm /\ vmLock' = vmLock /\ inflight' = inflight
               /\ \A e \in EntryIds : entries'[e] \in {entries[e], EnsureFree}]_vars

\* a follower returns Ok for a VM that the leader brought up
C3_Witness ==
    \E t \in Threads :
        /\ IsFollower(t) /\ th[t].pc = "evr_return" /\ th[t].res.ok
        /\ vm[th[t].name].run /\ th[t].events = <<"waiting">>

\* C5: every external command the leader of ensure_vm_running runs has an
\* explicit timeout.
C5_LeaderCommandsTimed ==
    \A t \in Threads :
        (th[t].leader /\ th[t].cmd.kind = "proc") => th[t].cmd.timeout # NoTimeout

\* ------------------------------------------------ create sequence claims
CreateCmds == {"limactl create", "wsl --install"}
StartCmds == {"limactl start", "wsl -d"}
Positions(q, S) == {i \in DOMAIN q : q[i] \in S}
\* a leader of ensure_vm_running whose inner sequence has returned Ok after
\* creating the instance
CreatedOk(t) ==
    /\ th[t].leader /\ th[t].pc = "evr_finish" /\ th[t].res.ok
    /\ Positions(th[t].cmds, CreateCmds) # {}

\* C12 (as stated): a leader that created the instance and returns Ok has
\* issued create, then start, then bootstrap, in that order, after a start
\* attempt before the create.
C12_CreateStartBootstrap ==
    \A t \in Threads :
        CreatedOk(t) =>
            LET c == th[t].cmds
            IN  \E h, i, j, k \in DOMAIN c :
                   /\ h < i /\ i < j /\ j < k
                   /\ c[h] \in StartCmds /\ c[i] \in CreateCmds
                   /\ c[j] \in StartCmds /\ c[k] = "bootstrap"

\* C12 (amended): a leader that created the instance returns the
\* deterministic name falck-<basename>-<hash> of its repo path, the instance
\* is registered and running, and the commands it issued are, in order: on
\* the POSIX provider the prerequisite check, a start, the registry list, the
\* removal of a stale directory if there was one, create, start and the
\* readiness probe, with no bootstrap; on the Windows subsystem the
\* prerequisite check, a start, the install that creates and starts the
\* distribution, the readiness probe and the bootstrap.  Create is issued
\* only after a start that did not succeed: no "waiting" phase precedes the
\* "creating" phase.
C12_CreateSequence ==
    \A t \in Threads :
        /\ CreatedOk(t) =>
              /\ th[t].res = Ok(vm_name_for_repo(th[t].key))
              /\ th[t].key = "/home/u/proj" => th[t].res.name = "falck-proj-573131b5"
              /\ vm[th[t].name].reg /\ vm[th[t].name].run
              /\ provider = "Lima" =>
                    th[t].cmds \in
                       {<<"which limactl", "limactl start", "limactl list",
                          "limactl create", "limactl start", "shell true">>,
                        <<"which limactl", "limactl start", "limactl list",
                          "remove_dir_all",
                          "limactl create", "limactl start", "shell true">>}
              /\ provider = "Wsl" =>
                    th[t].cmds = <<"wsl --status", "wsl -d", "wsl --install",
                                   "shell true", "bootstrap">>
        /\ \A i \in Positions(th[t].cmds, CreateCmds) :
              /\ \E h \in Positions(th[t].cmds, StartCmds) : h < i
              /\ \A n \in DOMAIN th[t].events :
                    th[t].events[n] = "creating" =>
                       \A m \in 1..n : th[t].events[m] # "waiting"

\* on the POSIX provider an instance that did not exist has been created,
\* started and probed, and the leader is about to publish its name
C12_Witness ==
    \E t \in Threads :
        /\ CreatedOk(t) /\ provider = "Lima"
        /\ "remove_dir_all" \notin SeqToSet(th[t].cmds)
        /\ th[t].res.name = "falck-proj-573131b5"

\* C13: the stale instance directory is removed only after a create attempt
\* has failed, and a create is issued again after the removal: every
\* remove_dir_all in a call's command history has a create before it, and
\* a leader that removed the directory and returns Ok has issued create on
\* both sides of the removal.
C13_CleanupAfterFailedCreate ==
    \A t \in Threads :
        \A i \in Positions(th[t].cmds, {"remove_dir_all"}) :
            /\ \E h \in Positions(th[t].cmds, {"limactl create"}) : h < i
            /\ (th[t].pc = "evr_finish" /\ th[t].res.ok) =>
                  \E k \in Positions(th[t].cmds, {"limactl create"}) : i < k

\* ----------------------------------------------------------- SpecResolve
\* resolve_repo_root called against guests in every combination of present,
\* late, absent, writable and read-only candidate paths.
GuestPaths(k) ==
    {lima_mount_target(k), lima_legacy_mount_target(k), k}
        \cup (IF repo_under_home(k) THEN {join_unix(VmHome, strip_home(k))} ELSE {})

Guests(k) ==
    {g \in [ex : [GuestPaths(k) -> Delays], wr : [GuestPaths(k) -> Delays],
            home : IF repo_under_home(k) THEN {VmHome, "", HomeUnreadable} ELSE {VmHome}] :
        \A path \in GuestPaths(k) : g.ex[path] = Never => g.wr[path] = Never}

FirstThread == CHOOSE t \in Threads : \A u \in Threads : t <= u

\* the guest of the VM of one repository
InitResolve ==
    /\ InitCommon
    /\ vm = [n \in VmNames |-> NoVm]
    /\ mode = "Virtualized"
    /\ IF provider = "Wsl" THEN guest = NoGuest
       ELSE \E k \in Keys : guest \in Guests(k)

\* the repository whose VM the guest belongs to
GuestRepo ==
    IF provider = "Wsl" THEN WinRepo
    ELSE CHOOSE k \in Keys : DOMAIN guest.ex = GuestPaths(k)

\* resolve_repo_root(provider, name, repo_path)
resolve_repo_root(t, k) ==
    /\ th[t].pc = "idle"
    /\ t = FirstThread
    /\ StartCall(t, "resolve_repo_root", k, "rr_preferred")
    /\ UNCHANGED <<inflight, entries, vmLock, vm, provider, mode, guest>>

NextResolve ==
    \E t \in Threads :
        \/ resolve_repo_root(t, GuestRepo)
        \/ ResolveStep(t)
        \/ Return(t)

SpecResolve == InitResolve /\ [][NextResolve]_vars

\* --------------------------------------------------- mount-resolver claims
RR_Done(t) == th[t].op = "resolve_repo_root" /\ th[t].pc = "return" /\ provider = "Lima"

\* the mount candidates of a host path in resolution order
Candidates(k) ==
    <<lima_mount_target(k), lima_legacy_mount_target(k)>>
        \o (IF repo_under_home(k) THEN <<join_unix(VmHome, strip_home(k))>> ELSE <<>>)
        \o <<k>>

GuestExists(path) == path \in DOMAIN guest.ex /\ guest.ex[path] <= Retries
GuestWritable(path) == path \in DOMAIN guest.wr /\ guest.wr[path] <= Retries
ProbeLog(t) == {th[t].probes[i] : i \in DOMAIN th[t].probes}
Least(S) == CHOOSE i \in S : \A j \in S : i <= j

\* C6: when the first candidate in the order preferred, legacy,
\* home-relative (repo under the host home only), host-literal that exists
\* in the guest is writable, resolve_repo_root returns Ok with that candidate.
C6_FirstExistingWritable ==
    \A t \in Threads :
        RR_Done(t) =>
            LET c == Candidates(th[t].key)
                ix == {i \in DOMAIN c : GuestExists(c[i])}
            IN  (ix # {} /\ GuestWritable(c[Least(ix)])) => th[t].ret = Ok(c[Least(ix)])

C8_NotMountedAfterAllProbed ==
    \A t \in Threads :
        RR_Done(t) =>
            LET c == Candidates(th[t].key)
            IN  (\A i \in DOMAIN c : ~GuestExists(c[i])) =>
                   /\ th[t].ret = Err(E_NotMounted(vm_name_for_repo(th[t].key)))
                   /\ \A i \in DOMAIN c : "exists " \o c[i] \in ProbeLog(t)

\* ------------------------------------------------------------- SpecPorts
\* Callers of ensure_vm_port_forwards for the VM of one repository, which
\* is registered and has any set of ports forwarded already.
InitPorts ==
    /\ InitCommon
    /\ \E run \in BOOLEAN : \E fwd \in SUBSET (PortValues \ {0}) :
          vm = [n \in VmNames |->
                  IF n = vm_name_for_repo(RepoA)
                  THEN [reg |-> TRUE, run |-> run, dir |-> TRUE, fwd |-> fwd]
                  ELSE NoVm]
    /\ mode = "Virtualized"
    /\ guest = NoGuest

NextPorts ==
    \E t \in Threads :
        \/ \E ports \in PortLists : ensure_vm_port_forwards(t, RepoA, ports)
        \/ PortForwardStep(t)
        \/ Return(t)

SpecPorts == InitPorts /\ [][NextPorts]_vars

\* C9: a call of ensure_vm_port_forwards for the Windows subsystem
\* provider, or one whose non-zero ports are all in the instance's
\* forwarded-port set (an empty list and a list of zeros included), returns
\* Ok at once: it has emitted no event, has no command in flight, has not
\* taken the VM lock, and its step leaves every VM and the lock as they were.
C9_PortForwardsNoop ==
    [][\A t \in Threads :
         (th[t].pc = "idle" /\ th'[t].op = "ensure_vm_port_forwards"
            /\ \/ provider = "Wsl"
               \/ \A i \in DOMAIN th'[t].ports :
                     th'[t].ports[i] # 0 =>
                        th'[t].ports[i] \in vm[th'[t].name].fwd) =>
            /\ th'[t].pc = "return" /\ th'[t].ret = Ok(NoName)
            /\ th'[t].events = <<>> /\ th'[t].cmd = NoCmd
            /\ th'[t].touched = {}
            /\ vm' = vm /\ vmLock' = vmLock]_vars

\* a call on the POSIX provider whose list holds a zero and a port that is
\* forwarded already has returned Ok without an event
C9_Witness ==
    \E t \in Threads :
        /\ provider = "Lima"
        /\ th[t].op = "ensure_vm_port_forwards" /\ th[t].pc = "return"
        /\ th[t].ret.ok /\ th[t].events = <<>>
        /\ \E i, j \in DOMAIN th[t].ports :
              th[t].ports[i] = 0 /\ th[t].ports[j] \in th[t].existing

\* ----------------------------------------------------------- SpecBackend
\* One worker calling the public entry points in either backend mode,
\* with the mode setting changed between calls.
PreferredOnly(k) ==
    {g \in Guests(k) :
        /\ g.home = VmHome
        /\ \A path \in GuestPaths(k) :
              IF path = lima_mount_target(k)
              THEN g.ex[path] # Retries /\ g.wr[path] # Retries
              ELSE g.ex[path] = Never}

InitBackend ==
    /\ InitCommon
    /\ vm \in {f \in [VmNames -> VmStates] : f[vm_name_for_repo(RepoB)] = NoVm}
    /\ mode \in BackendMode
    /\ guest \in PreferredOnly(RepoA)

NextBackend ==
    \E t \in {FirstThread} :
        \/ resolve_backend(t, RepoA)
        \/ ensure_backend_for_repo(t, RepoA)
        \/ stop_backend_for_repo(t, RepoA)
        \/ delete_repo_backend(t, RepoA)
        \/ th[t].pc = "idle" /\ \E m \in BackendMode : set_backend_mode(m)
        \/ LeaderStep(t)
        \/ LimaStep(t)
        \/ WslStep(t)
        \/ ResolveStep(t)
        \/ stop_backend_registered(t)
        \/ StopDeleteStep(t)
        \/ delete_vm_unregister(t)
        \/ Return(t)

SpecBackend == InitBackend /\ [][NextBackend]_vars

HostOps ==
    {"resolve_backend", "ensure_backend_for_repo", "stop_backend_for_repo",
     "delete_repo_backend"}

\* C10: with the persisted mode Host, a call of resolve_backend,
\* ensure_backend_for_repo, stop_backend_for_repo or delete_repo_backend
\* returns Ok in its first step: no command is issued, the in-flight
\* registry, the VM lock and the VMs are left as they were, no event is
\* emitted, and the returned context names no VM.
C10_HostModeNoSideEffects ==
    [][\A t \in Threads :
         (th[t].pc = "idle" /\ th'[t].op \in HostOps /\ mode = "Host") =>
            /\ th'[t].pc = "return" /\ th'[t].ret = Ok(NoName)
            /\ th'[t].ctx.vm = NoName
            /\ th'[t].op = "resolve_backend" => th'[t].ctx = BackendContext_host
            /\ th'[t].events = <<>> /\ th'[t].cmd = NoCmd /\ th'[t].touched = {}
            /\ inflight' = inflight /\ entries' = entries
            /\ vmLock' = vmLock /\ vm' = vm]_vars

\* in Host mode a stop request for a repository whose VM is running has
\* returned Ok and the VM is still running
C10_Witness ==
    \E t \in Threads :
        /\ mode = "Host"
        /\ th[t].op = "stop_backend_for_repo" /\ th[t].pc = "return" /\ th[t].ret.ok
        /\ vm[vm_name_for_repo(th[t].key)].run

\* the positions of resolve_repo_root
ResolvePcs == {"rr_preferred", "rr_legacy", "rr_home", "rr_host"}

\* C11: in Virtualized mode resolve_backend returns a context with a VM only
\* when ensure_vm_running returned Ok and resolve_repo_root then returned Ok
\* with a mount root that exists and is writable in the guest.  When
\* ensure_vm_running succeeded and mount resolution fails, resolve_backend
\* returns the resolver's error with no context, reports it with an error
\* event, and the VM is still running; no step of mount resolution issues a
\* command or changes a VM.
C11_PartialProgressKept ==
    /\ [](\A t \in Threads :
            (th[t].op = "resolve_backend" /\ th[t].pc = "return"
                /\ mode = "Virtualized") =>
               /\ th[t].ctx.vm # NoName =>
                     /\ th[t].res = Ok(vm_name_for_repo(th[t].key))
                     /\ th[t].ret.ok
                     /\ th[t].ctx = [mode |-> "Virtualized", vm |-> th[t].res.name,
                                     root |-> th[t].ret.name]
                     /\ provider = "Lima" =>
                           GuestExists(th[t].ret.name) /\ GuestWritable(th[t].ret.name)
               /\ (th[t].res.ok /\ ~th[t].ret.ok) =>
                     /\ th[t].ret.err \in {E_ReadOnly(th[t].name), E_NotMounted(th[t].name)}
                     /\ th[t].ctx = NoCtx
                     /\ th[t].events[Len(th[t].events)] = "error"
                     /\ vm[th[t].name].run
               /\ ~th[t].res.ok => th[t].ret = th[t].res /\ th[t].ctx = NoCtx)
    /\ [][\A t \in Threads :
            th[t].pc \in ResolvePcs =>
               /\ vm' = vm /\ vmLock' = vmLock
               /\ th'[t].cmd = NoCmd]_vars

\* resolve_backend brought the VM up, the preferred mount is missing, and
\* the call has returned the not-mounted error with the VM left running
C11_Witness ==
    \E t \in Threads :
        /\ th[t].op = "resolve_backend" /\ th[t].pc = "return"
        /\ th[t].res.ok /\ th[t].ret = Err(E_NotMounted(th[t].name))
        /\ "creating" \in {th[t].events[i] : i \in DOMAIN th[t].events}
        /\ vm[th[t].name].run

\* -------------------------------------------------------------- SpecLock
\* All operations that issue VM lifecycle commands, from backend.rs and
\* from containers.rs, running side by side on the Lima provider.
InitLock ==
    /\ InitCommon
    /\ provider = "Lima"
    /\ vm = [n \in VmNames |-> NoVm]
    /\ mode = "Virtualized"
    /\ guest = NoGuest

stop_backend_vm(t, k) ==
    /\ th[t].pc = "idle"
    /\ StartCall(t, "stop_vm", k, "stop_lock")
    /\ UNCHANGED <<inflight, entries, vmLock, vm, provider, mode, guest>>

delete_backend_vm(t, k) ==
    /\ th[t].pc = "idle"
    /\ StartCall(t, "delete_vm", k, "delete_lock")
    /\ UNCHANGED <<inflight, entries, vmLock, vm, provider, mode, guest>>

NextLock ==
    \E t \in Threads :
        \/ ensure_vm_running(t, RepoA)
        \/ stop_backend_vm(t, RepoA)
        \/ delete_backend_vm(t, RepoA)
        \/ launch_container(t, RepoB)
        \/ FollowerStep(t)
        \/ LeaderStep(t)
        \/ LimaStep(t)
        \/ StopDeleteStep(t)
        \/ ensure_vm_port_forwards(t, RepoA, <<3000>>)
        \/ PortForwardStep(t)
        \/ ContainerStep(t)
        \/ Return(t)

SpecLock == InitLock /\ [][NextLock]_vars

\* C4: a thread that has a VM lifecycle command in flight (create, start,
\* stop, delete, stale-directory cleanup) holds VM_OP_LOCK, so no two such
\* commands run at the same time.
C4_LifecycleUnderLock ==
    \A t \in Threads : th[t].cmd.name \in LifecycleCmds => vmLock = t

\* ---------------------------------------------------- ensure_vm_bootstrap
\* The guest as the bootstrap script sees it: the sentinel file
\* /var/lib/falck/bootstrap_v1, whether the shell is root, whether sudo is
\* installed and works without a password, and the package manager.
\* installs counts the runs that reached the package-install commands, runs
\* the runs started.
PackageManagers == {"apt-get", "dnf", "apk", "none"}
BootGuests ==
    [sentinel : BOOLEAN, root : BOOLEAN, sudo : BOOLEAN, nopw : BOOLEAN,
     pm : PackageManagers, installs : {0}, runs : {0}]

E_BootstrapTimeout == "Failed to bootstrap VM packages: Command timed out after 240 seconds"

\* exit of the script, or the kill at the deadline: the result of
\* spawn_capture_with_timeout as ensure_vm_bootstrap maps it
BootstrapExit(t, r, step) ==
    /\ Upd(t, [pc |-> "return", ret |-> r, cmd |-> NoCmd,
               probes |-> Append(th[t].probes, step)])
    /\ UNCHANGED <<inflight, entries, vmLock, vm, provider, mode>>

BootstrapGoto(t, next, step) ==
    /\ Upd(t, [pc |-> next, probes |-> Append(th[t].probes, step)])
    /\ UNCHANGED <<inflight, entries, vmLock, vm, provider, mode>>

\* `if provider == VmProvider::Lima { return Ok(()); }`, else the script is
\* spawned in the guest with VM_BOOTSTRAP_TIMEOUT_SECS
ensure_vm_bootstrap(t, k) ==
    /\ th[t].pc = "idle"
    /\ guest.runs < MaxRuns
    /\ IF provider = "Lima"
       THEN /\ Upd(t, [IdleThread EXCEPT !.op = "ensure_vm_bootstrap", !.key = k,
                          !.name = vm_name_for_repo(k), !.pc = "return",
                          !.ret = Ok(NoName)])
            /\ guest' = [guest EXCEPT !.runs = @ + 1]
       ELSE /\ Upd(t, [IdleThread EXCEPT !.op = "ensure_vm_bootstrap", !.key = k,
                          !.name = vm_name_for_repo(k), !.pc = "bs_sentinel",
                          !.cmd = Cmd("bootstrap", "proc", VM_BOOTSTRAP_TIMEOUT_SECS,
                                      vm_name_for_repo(k)),
                          !.cmds = <<"bootstrap">>])
            /\ guest' = [guest EXCEPT !.runs = @ + 1]
    /\ UNCHANGED <<inflight, entries, vmLock, vm, provider, mode>>

\* `if [ -f /var/lib/falck/bootstrap_v1 ]; then exit 0; fi`
bootstrap_sentinel_ignored(t) ==
    /\ th[t].pc = "bs_sentinel"
    /\ BootstrapGoto(t, "bs_sudo", "sentinel")
    /\ UNCHANGED guest
bootstrap_sentinel(t) ==
    /\ th[t].pc = "bs_sentinel"
    /\ IF guest.sentinel THEN BootstrapExit(t, Ok(NoName), "sentinel")
       ELSE BootstrapGoto(t, "bs_sudo", "sentinel")
    /\ UNCHANGED guest

\* the choice of SUDO, then `$SUDO mkdir -p /var/lib/falck`
bootstrap_sudo(t) ==
    /\ th[t].pc = "bs_sudo"
    /\ IF guest.root \/ (guest.sudo /\ guest.nopw)
       THEN \E ok \in BOOLEAN :
               IF ok THEN BootstrapGoto(t, "bs_install", "mkdir")
               ELSE BootstrapExit(t, Err(E_Bootstrap), "mkdir")
       ELSE BootstrapExit(t, Err(E_Bootstrap), "sudo")
    /\ UNCHANGED guest

\* apt-get update and install, dnf install or apk add; under `set -e` a
\* failing command ends the script
bootstrap_install(t) ==
    /\ th[t].pc = "bs_install"
    /\ IF guest.pm = "none"
       THEN BootstrapExit(t, Err(E_Bootstrap), "no package manager") /\ UNCHANGED guest
       ELSE /\ guest' = [guest EXCEPT !.installs = @ + 1]
            /\ \E ok \in BOOLEAN :
                  IF ok THEN BootstrapGoto(t, "bs_touch", "install")
                  ELSE BootstrapExit(t, Err(E_Bootstrap), "install failed")

\* `$SUDO touch /var/lib/falck/bootstrap_v1`, the last command of the script
bootstrap_touch(t) ==
    /\ th[t].pc = "bs_touch"
    /\ \E ok \in BOOLEAN :
          IF ok THEN /\ guest' = [guest EXCEPT !.sentinel = TRUE]
                     /\ BootstrapExit(t, Ok(NoName), "touch")
          ELSE /\ UNCHANGED guest
               /\ BootstrapExit(t, Err(E_Bootstrap), "touch failed")

\* the deadline passes while the script runs: the child is killed
bootstrap_timeout(t) ==
    /\ th[t].pc \in {"bs_sentinel", "bs_sudo", "bs_install", "bs_touch"}
    /\ BootstrapExit(t, Err(E_BootstrapTimeout), "killed")
    /\ UNCHANGED guest

\* --------------------------------------------------------- SpecBootstrap
\* One worker running the guest bootstrap up to MaxRuns times in succession
\* on one guest.
InitBootstrap ==
    /\ InitCommon
    /\ vm = [n \in VmNames |->
               IF n = vm_name_for_repo(RepoA)
               THEN [reg |-> TRUE, run |-> TRUE, dir |-> TRUE, fwd |-> {}]
               ELSE NoVm]
    /\ mode = "Virtualized"
    /\ guest \in BootGuests

NextBootstrap ==
    \E t \in {FirstThread} :
        \/ ensure_vm_bootstrap(t, RepoA)
        \/ bootstrap_sentinel(t)
        \/ bootstrap_sudo(t)
        \/ bootstrap_install(t)
        \/ bootstrap_touch(t)
        \/ bootstrap_timeout(t)
        \/ Return(t) /\ UNCHANGED guest

SpecBootstrap == InitBootstrap /\ [][NextBootstrap]_vars

InitContainers ==
    /\ InitCommon
    /\ provider \in {"Lima", "Wsl"}
    /\ vm \in {f \in [VmNames -> VmStates] : f[vm_name_for_repo(RepoB)] = NoVm}
    /\ mode = "Virtualized"
    /\ guest = NoGuest

NextContainers ==
    \E t \in {FirstThread} :
        \/ \E dockerfile_path \in DockerfilePaths, context_path \in ContextPaths :
              run_dockerfile_container(t, RepoA, dockerfile_path, context_path)
        \/ launch_container(t, RepoA)
        \/ DockerfileStep(t)
        \/ ContainerStep(t)
        \/ Return(t)

SpecContainers == InitContainers /\ [][NextContainers]_vars

LaunchOps == {"run_dockerfile_container", "launch_container"}

\* every build and every run of the call's history comes after an rm -f
RemovedFirst(q) ==
    \A i \in Positions(q, {"nerdctl build", "nerdctl run"}) :
        \E j \in Positions(q, {"nerdctl rm -f"}) : j < i

\* C15: a launch that finds a container of its name in the guest issues
\* rm -f for that name before it builds and before it runs (launch_container
\* issues it on every launch), a launch that returns Ok leaves exactly one
\* container of that name, and the guest never holds two.
C15_RemoveBeforeRelaunch ==
    /\ \A k \in Keys : guest.containers[k] <= 1
    /\ \A t \in Threads :
         th[t].op \in LaunchOps =>
            /\ (th[t].existed \/ th[t].op = "launch_container") => RemovedFirst(th[t].cmds)
            /\ (th[t].pc = "return" /\ th[t].ret.ok) =>
                  /\ guest.containers[th[t].key] = 1
                  /\ th[t].ret.name = container_name(th[t].key)

\* a relaunch through the Dockerfile path found the container of an earlier
\* launch, removed it, built, ran and returned the name
C15_Witness ==
    \E t \in Threads :
        /\ th[t].op = "run_dockerfile_container"
        /\ th[t].pc = "return"
        /\ th[t].existed
        /\ th[t].ret.ok
        /\ Positions(th[t].cmds, {"nerdctl rm -f"}) # {}
        /\ Positions(th[t].cmds, {"nerdctl run"}) # {}
        /\ guest.containers[th[t].key] = 1

\* -------------------------------------------------------- spawn helpers
\* The child of a spawn helper as the caller's process sees it.  child is
\* "running" or "exited"; status is what try_wait / wait report once it
\* has exited; killed records that child.kill() was issued; holder says
\* that a descendant of the child still holds the write ends of the stdout
\* and stderr pipes, so that read_to_end in the reader threads has not
\* seen end of file; elapsed is start.elapsed() in milliseconds.
PollMillis == 200
MaxElapsed == (SpawnTimeout * 1000) + (3 * PollMillis)
ExitStatuses == {"exit 0", "exit 1"}
NoChild ==
    [child |-> "none", status |-> "", killed |-> FALSE, holder |-> FALSE,
     elapsed |-> 0, timeout |-> NoTimeout]
E_Spawn == "Failed to spawn command"
E_TimedOut(to) == "Command timed out after " \o ToString(to) \o " seconds"

DeadlinePassed == guest.elapsed > guest.timeout * 1000
ReadersDone == guest.child = "exited" /\ ~guest.holder

SpawnGoto(t, next) ==
    /\ Upd(t, [pc |-> next])
    /\ UNCHANGED <<inflight, entries, vmLock, vm, provider, mode>>

SpawnReturn(t, r) ==
    /\ OpReturn(t, r, <<>>)
    /\ UNCHANGED <<inflight, entries, vm, provider, mode>>

\* cmd.spawn(), then the loop when a timeout is given, child.wait() otherwise
SpawnChild(t, opname, to, holders, poll, wait) ==
    /\ th[t].pc = "idle"
    /\ \/ /\ Upd(t, [IdleThread EXCEPT !.op = opname, !.pc = "return",
                                        !.ret = Err(E_Spawn)])
          /\ guest' = NoChild
       \/ /\ Upd(t, [IdleThread EXCEPT !.op = opname,
                                        !.pc = IF to = NoTimeout THEN wait ELSE poll])
          /\ \E h \in holders :
                guest' = [NoChild EXCEPT !.child = "running", !.holder = h,
                                         !.timeout = to]
    /\ UNCHANGED <<inflight, entries, vmLock, vm, provider, mode>>

\* spawn_with_timeout(cmd, timeout_secs, silent): stdout and stderr are
\* null or inherited, there are no pipes
spawn_with_timeout(t, to) ==
    SpawnChild(t, "spawn_with_timeout", to, {FALSE}, "sw_poll", "sw_wait")

\* one turn of the loop: try_wait, then the deadline test
sw_poll(t) ==
    /\ th[t].pc = "sw_poll"
    /\ IF guest.child = "exited"
       THEN SpawnReturn(t, Ok(guest.status)) /\ UNCHANGED guest
       ELSE IF DeadlinePassed
            THEN /\ guest' = [guest EXCEPT !.killed = TRUE, !.child = "exited",
                                           !.status = "killed"]
                 /\ SpawnReturn(t, Err(E_TimedOut(guest.timeout)))
            ELSE SpawnGoto(t, "sw_sleep") /\ UNCHANGED guest

\* std::thread::sleep(Duration::from_millis(200))
sw_sleep(t) ==
    /\ th[t].pc = "sw_sleep"
    /\ guest.elapsed < MaxElapsed
    /\ guest' = [guest EXCEPT !.elapsed = @ + PollMillis]
    /\ SpawnGoto(t, "sw_poll")

\* no timeout: child.wait()
sw_wait(t) ==
    /\ th[t].pc = "sw_wait"
    /\ guest.child = "exited"
    /\ SpawnReturn(t, Ok(guest.status))
    /\ UNCHANGED guest

\* spawn_capture_with_timeout(cmd, timeout_secs): stdout and stderr are
\* piped and two reader threads read them to end of file
spawn_capture_with_timeout(t, to) ==
    SpawnChild(t, "spawn_capture_with_timeout", to, BOOLEAN, "sc_poll", "sc_wait")

\* one turn of the loop: try_wait, then the deadline test with
\* child.kill()
sc_poll(t) ==
    /\ th[t].pc = "sc_poll"
    /\ IF guest.child = "exited"
       THEN SpawnGoto(t, "sc_join") /\ UNCHANGED guest
       ELSE IF DeadlinePassed
            THEN /\ guest' = [guest EXCEPT !.killed = TRUE, !.child = "exited",
                                           !.status = "killed"]
                 /\ SpawnGoto(t, "sc_kill_wait")
            ELSE SpawnGoto(t, "sc_sleep") /\ UNCHANGED guest

sc_sleep(t) ==
    /\ th[t].pc = "sc_sleep"
    /\ guest.elapsed < MaxElapsed
    /\ guest' = [guest EXCEPT !.elapsed = @ + PollMillis]
    /\ SpawnGoto(t, "sc_poll")

\* after the kill: `let _ = child.wait();`
sc_kill_wait(t) ==
    /\ th[t].pc = "sc_kill_wait"
    /\ guest.child = "exited"
    /\ SpawnGoto(t, "sc_kill_join")
    /\ UNCHANGED guest

\* after the kill: `let _ = stdout_handle.join(); let _ = stderr_handle.join();`
sc_kill_join(t) ==
    /\ th[t].pc = "sc_kill_join"
    /\ ReadersDone
    /\ SpawnReturn(t, Err(E_TimedOut(guest.timeout)))
    /\ UNCHANGED guest

\* no timeout: child.wait()
sc_wait(t) ==
    /\ th[t].pc = "sc_wait"
    /\ guest.child = "exited"
    /\ SpawnGoto(t, "sc_join")
    /\ UNCHANGED guest

\* stdout_handle.join(), stderr_handle.join(), Ok((status, stdout, stderr))
sc_join(t) ==
    /\ th[t].pc = "sc_join"
    /\ ReadersDone
    /\ SpawnReturn(t, Ok(guest.status))
    /\ UNCHANGED guest

\* the child exits by itself
child_exits(t) ==
    /\ guest.child = "running"
    /\ \E st \in ExitStatuses : guest' = [guest EXCEPT !.child = "exited", !.status = st]
    /\ UNCHANGED <<th, inflight, entries, vmLock, vm, provider, mode>>

\* the last descendant holding the pipes closes them
holder_exits(t) ==
    /\ guest.holder
    /\ guest' = [guest EXCEPT !.holder = FALSE]
    /\ UNCHANGED <<th, inflight, entries, vmLock, vm, provider, mode>>

\* time passes while the caller sits in wait() or join()
WaitingPcs == {"sw_wait", "sc_wait", "sc_kill_wait", "sc_kill_join", "sc_join"}
time_passes(t) ==
    /\ th[t].pc \in WaitingPcs
    /\ guest.elapsed < MaxElapsed
    /\ guest' = [guest EXCEPT !.elapsed = @ + PollMillis]
    /\ UNCHANGED <<th, inflight, entries, vmLock, vm, provider, mode>>

InitSpawn ==
    /\ InitCommon
    /\ provider = "Lima"
    /\ vm = [n \in VmNames |-> NoVm]
    /\ mode = "Virtualized"
    /\ guest = NoChild

NextSpawn ==
    \E t \in {FirstThread} :
        \/ \E to \in {NoTimeout, SpawnTimeout} : spawn_with_timeout(t, to)
        \/ \E to \in {NoTimeout, SpawnTimeout} : spawn_capture_with_timeout(t, to)
        \/ sw_poll(t)
        \/ sw_sleep(t)
        \/ sw_wait(t)
        \/ sc_poll(t)
        \/ sc_sleep(t)
        \/ sc_kill_wait(t)
        \/ sc_kill_join(t)
        \/ sc_wait(t)
        \/ sc_join(t)
        \/ child_exits(t)
        \/ holder_exits(t)
        \/ time_passes(t)
        \/ Return(t) /\ UNCHANGED guest

SpecSpawn == InitSpawn /\ [][NextSpawn]_vars

SpawnOps == {"spawn_with_timeout", "spawn_capture_with_timeout"}
TimedCall(t) == th[t].op \in SpawnOps /\ guest.timeout # NoTimeout

\* the caller sits in wait() or join() and what it waits for has not come
Blocked(t) ==
    \/ th[t].pc \in {"sw_wait", "sc_wait", "sc_kill_wait"} /\ guest.child = "running"
    \/ th[t].pc \in {"sc_kill_join", "sc_join"} /\ ~ReadersDone

\* C16 (returns): a timed call that returns Ok returns the exit status the
\* child was observed with and has not killed it; one that returns the
\* timeout error has issued the kill, and only once the deadline had passed.
C16_TimeoutKills ==
    \A t \in Threads :
        (TimedCall(t) /\ th[t].pc = "return") =>
            /\ th[t].ret.ok =>
                  th[t].ret.name \in ExitStatuses /\ ~guest.killed
            /\ th[t].ret.err = E_TimedOut(guest.timeout) => guest.killed /\ DeadlinePassed

\* C16: a timed call returns the observed exit status or, with the kill
\* issued, the timeout error, and once the deadline has passed it never
\* sits blocked waiting for the child or for its output.
C16_NeverBlocksAfterDeadline ==
    /\ C16_TimeoutKills
    /\ \A t \in Threads : (TimedCall(t) /\ DeadlinePassed) => ~Blocked(t)

\* ------------------------------------------------- events and results
\* Two runs of one lifecycle operation from the same instance and the same
\* containers, given the same replies by the provider, the second with
\* another app handle.  guest.twin holds the start (vm0, containers0), the
\* run, its handle, and after the first run its replies (tape) and what
\* it returned (last).
\* operations whose app parameter is an Option
OptionalAppOps == {"ensure_vm_running", "ensure_vm_port_forwards", "run_dockerfile_container"}
NoSummary == [op |-> "none", ret |-> NoResult, cmds |-> <<>>, events |-> <<>>]

CallResult(t) == IF th[t].op = "ensure_vm_running" THEN th[t].res ELSE th[t].ret
Summary(t) ==
    [op |-> th[t].op, ret |-> CallResult(t), cmds |-> th[t].cmds, events |-> th[t].events]

InitEvents ==
    /\ InitCommon
    /\ provider = "Lima"
    /\ vm \in {f \in [VmNames -> VmStates] : f[vm_name_for_repo(RepoB)] = NoVm}
    /\ mode = "Virtualized"
    /\ \E a \in {"delivering", "failing"} : \E n \in {0, 1} :
          guest = [NoGuest EXCEPT !.containers[RepoA] = n] @@
                  [twin |-> [run |-> 1, app |-> a, tape |-> <<>>, vm0 |-> vm,
                             containers0 |-> [NoGuest.containers EXCEPT ![RepoA] = n],
                             last |-> NoSummary]]

\* a call may begin from the common start, in the second run the call of
\* the first
CallOpen(opname) ==
    /\ vm = guest.twin.vm0
    /\ guest.containers = guest.twin.containers0
    /\ guest.twin.run = 2 => guest.twin.last.op = opname

\* the call has its result and is about to return (the leader of
\* ensure_vm_running returns with the removal of its registry entry)
CallOver(t) == th[t].pc \in {"return", "evr_remove"} /\ th[t].op # "none"

\* the first run is over: its replies and its result are kept, and the
\* second run begins from the same start with another handle
second_run(t) ==
    /\ CallOver(t)
    /\ guest.twin.run = 1
    /\ \E a \in {"delivering", "failing", "none"} \ {guest.twin.app} :
          /\ a = "none" => th[t].op \in OptionalAppOps
          /\ guest' = [guest EXCEPT !.containers = guest.twin.containers0,
                                    !.twin.run = 2, !.twin.app = a,
                                    !.twin.tape = th[t].replies,
                                    !.twin.last = Summary(t)]
    /\ vm' = guest.twin.vm0
    /\ UNCHANGED <<th, inflight, entries, vmLock, provider, mode>>

NextEvents ==
    \E t \in {FirstThread} :
        \/ CallOpen("ensure_vm_running") /\ ensure_vm_running(t, RepoA)
        \/ CallOpen("ensure_vm_port_forwards") /\ ensure_vm_port_forwards(t, RepoA, <<3000>>)
        \/ CallOpen("stop_vm") /\ stop_backend_vm(t, RepoA)
        \/ CallOpen("delete_vm") /\ delete_backend_vm(t, RepoA)
        \/ CallOpen("launch_container") /\ launch_container(t, RepoA)
        \/ CallOpen("run_dockerfile_container")
              /\ run_dockerfile_container(t, RepoA, "Dockerfile", ".")
        \/ (CallOver(t) => guest.twin.run = 2) /\ LeaderStep(t)
        \/ LimaStep(t)
        \/ StopDeleteStep(t)
        \/ PortForwardStep(t)
        \/ ContainerStep(t)
        \/ DockerfileStep(t)
        \/ second_run(t)
        \/ guest.twin.run = 2 /\ Return(t)

SpecEvents == InitEvents /\ [][NextEvents]_vars

\* a call has its result while the result of the first run is on record
SecondReturned(t) ==
    /\ Twinned /\ guest.twin.run = 2
    /\ CallOver(t)

\* C18: a run that differs from another only in its app handle (absent,
\* or one whose emit fails) returns the same result and has issued the same
\* commands in the same order.
C18_ResultIndependentOfEvents ==
    \A t \in Threads :
        SecondReturned(t) =>
            /\ th[t].op = guest.twin.last.op
            /\ CallResult(t) = guest.twin.last.ret
            /\ th[t].cmds = guest.twin.last.cmds

\* the first run delivered its events and created the instance; the second,
\* with a handle whose emit fails, delivered none and did the same
C18_Witness ==
    \E t \in Threads :
        /\ SecondReturned(t)
        /\ th[t].replies = guest.twin.tape
        /\ guest.twin.app = "failing"
        /\ th[t].op = "ensure_vm_running"
        /\ th[t].events = <<>>
        /\ guest.twin.last.events # <<>>
        /\ CallResult(t).ok
        /\ Positions(th[t].cmds, CreateCmds) # {}

InUse(k) == {th[t].entry : t \in {u \in Threads : th[u].key = k /\ th[u].entry # 0}}

\* the registry names no object twice, names only live objects, and a
\* published object still registered is one whose leader is at its remove
RegistryTidy ==
    /\ \A k1, k2 \in Keys :
          (inflight[k1] # 0 /\ inflight[k1] = inflight[k2]) => k1 = k2
    /\ \A k \in Keys :
          inflight[k] # 0 =>
             /\ entries[inflight[k]].st # "Free"
             /\ entries[inflight[k]].st = "Done" =>
                   \E t \in Holders(inflight[k]) :
                      th[t].leader /\ th[t].pc = "evr_remove" /\ th[t].key = k

\* C19 (as stated): the registry is tidy and the callers of one key use at
\* most one EnsureInFlight object at any time.
C19_OneObjectInUse ==
    /\ RegistryTidy
    /\ \A k \in Keys : Cardinality(InUse(k)) <= 1

\* C19: the registry holds at most one EnsureInFlight per key; of the
\* objects the callers of one key hold, at most one is unpublished, and it
\* is the registered one; a published one may still be held by followers
\* collecting its result while a later call leads a new one; the leader
\* removes its entry in its next step after publishing, whether the result
\* is Ok or Err.
C19_RegistryInvariants ==
    /\ RegistryTidy
    /\ \A k \in Keys :
          \A e \in InUse(k) :
             entries[e].st = "Running" => inflight[k] = e
    /\ \A t \in Threads :
          th[t].pc = "evr_remove" =>
             /\ entries[th[t].entry].st = "Done"
             /\ entries[th[t].entry].result = th[t].res
             /\ inflight[th[t].key] = th[t].entry

\* a leader has published a failure and is at its remove while a follower
\* still waits on the object
C19_Witness ==
    \E t, u \in Threads :
        /\ th[t].leader /\ th[t].pc = "evr_remove"
        /\ ~entries[th[t].entry].result.ok
        /\ th[u].pc = "evr_wait" /\ th[u].entry = th[t].entry
        /\ inflight[th[t].key] = th[t].entry

\* ------------------------------------------------------- lock claims
\* The registry lock is held only inside the lookup-or-insert block and
\* the remove block of ensure_vm_running, each one step here; a thread is
\* about to take it when it is idle (entering ensure_vm_running) or at
\* "evr_remove".  The VM operation lock is asked for at the four places
\* below.
LockWaitPcs == {"inner_lock", "stop_lock", "delete_lock", "pf_lock"}
WaitsLock(t) == th[t].pc \in LockWaitPcs /\ vmLock # 0
WaitsEntry(t) == th[t].pc = "evr_wait" /\ entries[th[t].entry].st = "Running"
Waits(t) == WaitsLock(t) \/ WaitsEntry(t)

\* the steps thread t can take inside a call it has begun
CallStep(t) ==
    \/ FollowerStep(t)
    \/ LeaderStep(t)
    \/ LimaStep(t)
    \/ StopDeleteStep(t)
    \/ PortForwardStep(t)
    \/ Return(t)

\* concurrent calls of ensure_vm_running (two repositories), stop_vm,
\* delete_vm and ensure_vm_port_forwards on Lima
NextCalls ==
    \E t \in Threads :
        \/ \E k \in Keys : ensure_vm_running(t, k)
        \/ stop_backend_vm(t, RepoA)
        \/ delete_backend_vm(t, RepoA)
        \/ ensure_vm_port_forwards(t, RepoA, <<3000>>)
        \/ FollowerStep(t)
        \/ LeaderStep(t)
        \/ LimaStep(t)
        \/ StopDeleteStep(t)
        \/ PortForwardStep(t)
        \/ Return(t)

SpecCalls == InitLock /\ [][NextCalls]_vars

\* C20: a follower in EnsureInFlight::wait holds no lock; a thread about to
\* take the registry lock does not hold the VM operation lock, and a
\* thread asking for the VM operation lock is not inside a registry block;
\* so whoever a waiting thread waits for (the holder of the VM operation
\* lock, the leader of its EnsureInFlight) is in the middle of its call and
\* waits for no one in turn, and every thread inside a call that is not
\* waiting can take a step: no set of calls is deadlocked.
C20_NoDeadlock ==
    /\ \A t \in Threads :
          th[t].pc \in {"idle", "evr_wait", "evr_remove", "evr_return"} => vmLock # t
    /\ \A t \in Threads :
          WaitsLock(t) => vmLock # t /\ th[vmLock].pc # "idle" /\ ~Waits(vmLock)
    /\ \A t \in Threads :
          WaitsEntry(t) =>
             \E l \in Holders(th[t].entry) :
                /\ th[l].leader /\ th[l].pc \in LeaderPcs
                /\ ~WaitsEntry(l)
    /\ \A t \in Threads :
          (th[t].pc # "idle" /\ ~Waits(t) /\ Scheduled(t)) => ENABLED CallStep(t)

\* a follower waits in EnsureInFlight::wait while its leader, having taken
\* the VM operation lock, has a limactl create in flight
C20_Witness ==
    \E f, l \in Threads :
        /\ WaitsEntry(f) /\ th[l].leader /\ th[l].entry = th[f].entry
        /\ vmLock = l
        /\ th[l].cmd.name \in CreateCmds

\* ------------------------------------------------------ readiness waits
\* Successive calls of ensure_vm_running for one repository, with the
\* stopwatch of wait_for_vm_ready running.
InitReady ==
    /\ InitCommon
    /\ vm \in {f \in [VmNames -> VmStates] : f[vm_name_for_repo(RepoB)] = NoVm}
    /\ mode = "Virtualized"
    /\ guest = NoGuest @@ [clock |-> NoClock]

\* one caller at a time: every call leads
ensure_vm_running_alone(t, k) == t = FirstThread /\ ensure_vm_running(t, k)

NextReady ==
    \E t \in Threads :
        \/ ensure_vm_running_alone(t, RepoA)
        \/ LeaderStep(t)
        \/ LimaStep(t)
        \/ WslStep(t)

SpecReady == InitReady /\ [][NextReady]_vars

\* the inner sequence of a leader has returned Ok
InnerOk(t) == th[t].leader /\ th[t].pc = "evr_finish" /\ th[t].res.ok

\* the last wait of the call ended with a successful probe, and the call
\* issued a probe after each of its start and create commands
ProbedAfterStart(t) ==
    LET probed == Positions(th[t].cmds, {"shell true"})
        started == Positions(th[t].cmds, StartCmds \cup CreateCmds)
    IN  /\ guest.clock.ready[t]
        /\ started # {}
        /\ \E p \in probed : \A i \in started : i < p

\* Ok is returned only after a probe that succeeded after the last start or
\* create command of the call, and a wait that ran out gives the not-ready
\* error
C21_OkOnlyAfterProbe ==
    \A t \in Threads :
        /\ InnerOk(t) => ProbedAfterStart(t)
        /\ (th[t].leader /\ th[t].pc = "evr_finish" /\ th[t].res = Err(E_NotReady)) =>
              /\ ~guest.clock.ready[t]
              /\ guest.clock.ended[t] > VM_READY_TIMEOUT_SECS

\* C21: ensure_vm_running returns Ok(name) only if a readiness probe
\* succeeded after the most recent start or create command of the call,
\* and a call whose probe has not succeeded by the time the overall timeout
\* has elapsed returns the not-ready error, not Ok: the successful probe of
\* a call that returns Ok came within the timeout.  (A follower returns the
\* result its leader published.)
C21_ReadyWithinTimeout ==
    \A t \in Threads :
        InnerOk(t) =>
            /\ ProbedAfterStart(t)
            /\ guest.clock.ended[t] <= VM_READY_TIMEOUT_SECS

\* ---------------------------------------------------- probe retry claims
Count(log, x) == Cardinality({n \in DOMAIN log : log[n] = x})
Resolving(t) == th[t].op = "resolve_repo_root" /\ provider = "Lima"

\* C22: a retry loop probes the existence of a mount candidate at most
\* Retries + 1 = 6 times and makes no probe after one that succeeded; the
\* writability probes of a candidate follow the same policy, and are made
\* only of a candidate whose existence loop ended with a successful probe,
\* after that probe, and of no candidate but the first existing one.
C22_ProbeRetryPolicy ==
    \A t \in Threads :
        Resolving(t) =>
            LET c == Candidates(th[t].key)
                log == th[t].probes
                ix == {i \in DOMAIN c : GuestExists(c[i])}
            IN  \A i \in DOMAIN c :
                   LET e == "exists " \o c[i]
                       w == "writable " \o c[i]
                   IN  /\ Count(log, e) <= Retries + 1
                       /\ Count(log, w) <= Retries + 1
                       /\ GuestExists(c[i]) => Count(log, e) <= guest.ex[c[i]] + 1
                       /\ GuestWritable(c[i]) => Count(log, w) <= guest.wr[c[i]] + 1
                       /\ Count(log, w) > 0 =>
                             /\ GuestExists(c[i])
                             /\ i = Least(ix)
                             /\ Count(log, e) = guest.ex[c[i]] + 1
                             /\ \A m, n \in DOMAIN log :
                                   (log[m] = e /\ log[n] = w) => m < n
                       /\ (th[t].pc = "return" /\ Count(log, e) > 0) =>
                             /\ ~GuestExists(c[i]) => Count(log, e) = Retries + 1
                             /\ GuestExists(c[i]) =>
                                   /\ Count(log, e) = guest.ex[c[i]] + 1
                                   /\ Count(log, w) =
                                        IF GuestWritable(c[i]) THEN guest.wr[c[i]] + 1
                                        ELSE Retries + 1

\* the preferred path is absent, the legacy path appears only at the last
\* retry and becomes writable only at the last retry of the second loop:
\* six probes of each kind were made of it and it was returned
C22_Witness ==
    \E t \in Threads :
        LET c == Candidates(th[t].key)
        IN  /\ RR_Done(t)
            /\ ~GuestExists(c[1])
            /\ guest.ex[c[2]] = Retries /\ guest.wr[c[2]] = Retries
            /\ Count(th[t].probes, "exists " \o c[1]) = Retries + 1
            /\ Count(th[t].probes, "exists " \o c[2]) = Retries + 1
            /\ Count(th[t].probes, "writable " \o c[2]) = Retries + 1
            /\ th[t].ret = Ok(c[2])

\* -------------------------------------------------- port-forward restart
\* a call of ensure_vm_port_forwards that found ports missing
Restarting(t) == th[t].op = "ensure_vm_port_forwards" /\ th[t].missing # <<>>

RestartCmds == <<"limactl stop", "limactl start", "shell true">>
IsPrefix(q, r) == Len(q) <= Len(r) /\ \A i \in DOMAIN q : q[i] = r[i]

\* stop, start, readiness probe, in that order and under the VM operation
\* lock; Ok only after the probe
RestartInOrder(t) ==
    /\ IsPrefix(th[t].cmds, RestartCmds)
    /\ th[t].pc \in {"pf_stop", "pf_start", "pf_ready"} => vmLock = t
    /\ th[t].pc = "pf_lock" => th[t].cmds = <<>>
    /\ Busy(t) =>
          /\ vmLock = t
          /\ th[t].cmd.name = RestartCmds[Len(th[t].cmds)]
    /\ th[t].pc = "pf_start" => Len(th[t].cmds) >= 1
    /\ th[t].pc = "pf_ready" => Len(th[t].cmds) >= 2
    /\ (th[t].pc = "return" /\ th[t].ret.ok) => th[t].cmds = RestartCmds

\* the port list given to limactl_start
StartPorts(t) == SeqToSet(th[t].missing)

\* C23 (as stated): when desired minus existing is non-empty,
\* ensure_vm_port_forwards, holding the VM operation lock, stops the VM,
\* restarts it and waits for readiness, in that order, returns Ok only
\* after the readiness probe succeeded, and the port list it passes to the
\* restart is the full list of the existing and the missing ports.
C23_RestartPassesFullList ==
    \A t \in Threads :
        Restarting(t) =>
            /\ RestartInOrder(t)
            /\ (th[t].pc = "pf_start" /\ Busy(t)) =>
                  StartPorts(t) = lima_forwarded_ports(Target(t)) \cup SeqToSet(th[t].ports)

\* C23 (amended): when desired minus existing is non-empty,
\* ensure_vm_port_forwards, holding the VM operation lock, stops the VM,
\* restarts it and waits for readiness, in that order, and returns Ok only
\* after the readiness probe succeeded; the port list it passes to the
\* restart holds the missing ports only, none of them zero: every desired
\* port it leaves out is forwarded already.
C23_RestartPassesMissing ==
    \A t \in Threads :
        Restarting(t) =>
            /\ RestartInOrder(t)
            /\ StartPorts(t) # {} /\ 0 \notin StartPorts(t)
            /\ StartPorts(t) \subseteq SeqToSet(th[t].ports)
            /\ \A port \in SeqToSet(th[t].ports) \ StartPorts(t) :
                  port \in lima_forwarded_ports(Target(t))

\* a call that asked for a forwarded and a missing port has stopped and
\* restarted the instance with the missing port and returned Ok
C23_Witness ==
    \E t \in Threads :
        /\ Restarting(t) /\ th[t].pc = "return" /\ th[t].ret.ok
        /\ th[t].cmds = RestartCmds
        /\ StartPorts(t) = {8080}
        /\ SeqToSet(th[t].ports) = {3000, 8080}
        /\ {3000, 8080} \subseteq Target(t).fwd

\* ------------------------------------------------------- mode setting
\* One worker calling resolve_backend again and again while the user
\* changes the backend mode at any moment, during a call included.
InitMode ==
    /\ InitCommon
    /\ vm \in {f \in [VmNames -> VmStates] : f[vm_name_for_repo(RepoB)] = NoVm}
    /\ mode \in BackendMode
    /\ \E g \in PreferredOnly(RepoA) : guest = g @@ [calls |-> NoCalls]

NextMode ==
    \E t \in {FirstThread} :
        \/ resolve_backend(t, RepoA)
        \/ \E m \in BackendMode : set_backend_mode(m)
        \/ LeaderStep(t)
        \/ LimaStep(t)
        \/ WslStep(t)
        \/ ResolveStep(t)
        \/ Return(t)

SpecMode == InitMode /\ [][NextMode]_vars

\* C24: every call of resolve_backend reads the persisted mode anew: a
\* call that starts when the mode last stored by set_backend_mode is m
\* resolves according to m (Host: it returns the host context at once;
\* Virtualized: it enters ensure_vm_running and a context it returns is a
\* Virtualized one), whatever contexts earlier calls were given.
C24_ModeReadEachCall ==
    /\ [][\A t \in Threads :
            (th[t].pc = "idle" /\ th'[t].op = "resolve_backend") =>
               IF mode = "Host"
               THEN /\ th'[t].pc = "return" /\ th'[t].ret.ok
                    /\ th'[t].ctx = BackendContext_host
               ELSE /\ th'[t].pc \in {"inner_prereq", "evr_wait"}
                    /\ th'[t].touched = {"registry"}]_vars
    /\ [](\A t \in Threads :
            (th[t].op = "resolve_backend" /\ th[t].pc = "return" /\ th[t].ret.ok) =>
               IF th[t].touched = {} THEN th[t].ctx = BackendContext_host
               ELSE th[t].ctx.mode = "Virtualized" /\ th[t].ctx.vm = th[t].name)

\* one call read Host; the mode was then set to Virtualized and the next
\* call has returned a context with a VM
C24_Witness ==
    \E t \in Threads :
        /\ guest.calls.prev = "Host" /\ guest.calls.cur = "Virtualized"
        /\ th[t].op = "resolve_backend" /\ th[t].pc = "return" /\ th[t].ret.ok
        /\ th[t].ctx.mode = "Virtualized" /\ th[t].ctx.vm # NoName
        /\ mode = "Virtualized"

\* ------------------------------------------------------------ delete_vm
\* Callers of delete_vm and stop_vm for the instance of one repository on
\* the POSIX provider, the instance being in any state at the start.
InitDelete ==
    /\ InitCommon
    /\ provider = "Lima"
    /\ vm \in {f \in [VmNames -> VmStates] : f[vm_name_for_repo(RepoB)] = NoVm}
    /\ mode = "Virtualized"
    /\ guest = NoGuest

NextDelete ==
    \E t \in Threads :
        \/ delete_backend_vm(t, RepoA)
        \/ stop_backend_vm(t, RepoA)
        \/ StopDeleteStep(t)
        \/ Return(t)

SpecDelete == InitDelete /\ [][NextDelete]_vars

DeleteCmds == <<"limactl delete", "limactl stop --force", "limactl delete --force">>
Deleting(t) == th[t].op = "delete_vm"
DeletePcs == {"delete_plain", "delete_force_stop", "delete_force"}

\* C25: delete_vm on the POSIX provider issues a plain delete first; it
\* issues the forced stop and then the forced delete, in that order, only
\* when the plain delete failed, every command under the VM operation
\* lock; it returns Ok without a stop when the plain delete succeeded, and
\* otherwise returns from the forced delete with that command's result.
C25_DeleteSequence ==
    /\ [](\A t \in Threads :
            Deleting(t) =>
               /\ IsPrefix(th[t].cmds, DeleteCmds)
               /\ th[t].pc \in DeletePcs => vmLock = t
               /\ th[t].pc = "delete_lock" => th[t].cmds = <<>>
               /\ Busy(t) => th[t].cmd.name = DeleteCmds[Len(th[t].cmds)]
               /\ th[t].pc = "delete_force_stop" => Len(th[t].cmds) >= 1
               /\ th[t].pc = "delete_force" => Len(th[t].cmds) >= 2
               /\ th[t].pc = "return" =>
                     \/ th[t].cmds = <<"limactl delete">> /\ th[t].ret.ok
                     \/ th[t].cmds = DeleteCmds /\ th[t].ret \in {Ok(NoName), Err(E_Delete)})
    /\ [][\A t \in Threads :
            (Deleting(t) /\ th'[t].pc # th[t].pc) =>
               CASE th[t].pc = "delete_plain" ->
                       /\ th[t].cmd.name = "limactl delete"
                       /\ th'[t].pc \in {"return", "delete_force_stop"}
                       /\ th'[t].pc = "return" => th'[t].ret.ok /\ vmLock' = 0
                       /\ th'[t].pc = "delete_force_stop" => vm' = vm
                 [] th[t].pc = "delete_force_stop" ->
                       th[t].cmd.name = "limactl stop --force" /\ th'[t].pc = "delete_force"
                 [] th[t].pc = "delete_force" ->
                       /\ th[t].cmd.name = "limactl delete --force"
                       /\ th'[t].pc = "return" /\ vmLock' = 0
                       /\ ~th'[t].ret.ok => vm' = vm
                 [] OTHER -> TRUE]_vars

\* the plain delete of a registered instance failed, and the call has
\* returned Ok after the forced stop and the forced delete
C25_Witness ==
    \E t \in Threads :
        /\ Deleting(t) /\ th[t].pc = "return" /\ th[t].ret.ok
        /\ th[t].cmds = DeleteCmds
        /\ vm[th[t].name] = NoVm

\* C26: when delete_vm has returned Ok for an instance of the POSIX
\* provider, the instance is unregistered and its local instance directory
\* is gone, so that a later ensure_vm_running finds no stale directory.
C26_DeleteOkPurges ==
    \A t \in Threads :
        (Deleting(t) /\ th[t].pc = "return" /\ th[t].ret.ok) =>
            /\ ~vm[th[t].name].reg
            /\ ~vm[th[t].name].dir

\* ------------------------------------------------- Dockerfile launches
DockerfileLaunch(t) == th[t].op = "run_dockerfile_container"
CheckCmds == <<"shell command -v sudo", "shell sudo -n true", "shell command -v nerdctl">>
MutatingCmds == {"nerdctl rm -f", "nerdctl build", "nerdctl run"}
LaunchCmds == CheckCmds \o <<"nerdctl ps -a", "nerdctl build", "nerdctl run">>
RelaunchCmds == CheckCmds \o <<"nerdctl ps -a", "nerdctl rm -f", "nerdctl build", "nerdctl run">>

\* the errors of the argument checks, of ensure_vm_sudo and of the
\* nerdctl_exists branch
CheckErrors(t) ==
    {"Dockerfile launches are only supported on Lima.", "Dockerfile path is empty.",
     "Docker build context is empty.",
     "sudo is required inside the VM to run containers.",
     "sudo requires a password. Run: limactl shell " \o th[t].name \o " -- sudo -v",
     "nerdctl is not available in this Lima VM."}

\* the step ends the command that was in flight for thread t
Ends(t, name) == th[t].cmd.name = name /\ th'[t].cmd = NoCmd

\* C27: run_dockerfile_container issues the sudo checks and the engine
\* check, in that order, before any removal, build or run; a call that
\* returns the error of a check has issued none of the three; a check that
\* ends either passes or ends the call with an error; the build is issued
\* after all checks, the run only after the build ended with success (the
\* "starting" status lies between them), and a failed build ends the call.
C27_ChecksBeforeMutation ==
    /\ [](\A t \in Threads :
            DockerfileLaunch(t) =>
               /\ IsPrefix(th[t].cmds, LaunchCmds) \/ IsPrefix(th[t].cmds, RelaunchCmds)
               /\ (th[t].pc = "return" /\ ~th[t].ret.ok /\ th[t].ret.err \in CheckErrors(t))
                     => Positions(th[t].cmds, MutatingCmds) = {}
               /\ Positions(th[t].cmds, {"nerdctl run"}) # {}
                     => Positions(th[t].events, {"starting"}) # {})
    /\ [][\A t \in Threads :
            DockerfileLaunch(t) =>
               /\ (\E i \in DOMAIN CheckCmds : Ends(t, CheckCmds[i])) =>
                     \/ th'[t].pc = "return" /\ th'[t].ret.err \in CheckErrors(t)
                     \/ th'[t].pc # "return" /\ th'[t].cmds = th[t].cmds
               /\ Ends(t, "nerdctl build") =>
                     \/ th'[t].pc = "return" /\ ~th'[t].ret.ok
                     \/ /\ th'[t].pc # "return"
                        /\ th'[t].events = Append(th[t].events, "starting")]_vars

\* one launch failed its passwordless-sudo check with nothing removed, built
\* or run, in a guest that holds the container of an earlier launch
C27_Witness ==
    \E t \in Threads :
        /\ DockerfileLaunch(t)
        /\ th[t].pc = "return"
        /\ th[t].existed
        /\ th[t].ret = Err("sudo requires a password. Run: limactl shell "
                              \o th[t].name \o " -- sudo -v")
        /\ th[t].cmds = <<"shell command -v sudo", "shell sudo -n true">>
        /\ guest.containers[th[t].key] = 1

\* the messages a failed build can return, and those a failed run can
BuildMessages == {build_error(x) : x \in Outputs} \cup {"Container build failed"}
RunMessages == {run_error(x) : x \in Outputs} \cup {"Container failed to start"}

\* the call returned an error out of the command it issued last
FailedAt(t, name) ==
    /\ th[t].op \in LaunchOps
    /\ th[t].pc = "return"
    /\ ~th[t].ret.ok
    /\ th[t].cmds # <<>>
    /\ th[t].cmds[Len(th[t].cmds)] = name

\* C28: the error of a launch that failed in its build is not a message a
\* failed run can return, and the error of a launch that failed in its run
\* is not a message a failed build can return, whatever the failing command
\* wrote.
C28_ErrorNamesStep ==
    \A t \in Threads :
        /\ FailedAt(t, "nerdctl build") => th[t].ret.err \notin RunMessages
        /\ FailedAt(t, "nerdctl run") => th[t].ret.err \notin BuildMessages

\* ----------------------------------------------------- container store
\* One caller launches, starts and stops the container of RepoA while
\* another deletes it.
InitStore ==
    /\ InitCommon
    /\ provider = "Lima"
    /\ vm \in {f \in [VmNames -> VmStates] : f[vm_name_for_repo(RepoB)] = NoVm}
    /\ mode = "Virtualized"
    /\ guest = NoGuest @@ [store |-> NoStore]

NextStore ==
    \/ Clock
    \/ \E t \in Threads :
        \/ t = FirstThread /\ launch_container(t, RepoA)
        \/ t = FirstThread /\ start_container(t, RepoA)
        \/ t = FirstThread /\ stop_container(t, RepoA)
        \/ t # FirstThread /\ delete_container(t, RepoA)
        \/ ContainerStep(t)
        \/ StoreStep(t)
        \/ Return(t)

SpecStore == InitStore /\ [][NextStore]_vars

Refreshing(t) == th[t].op \in {"start_container", "stop_container"} /\ th[t].pc = "s_record"

\* C29: the store holds the record of an id only if a launch of the id
\* succeeded and no delete_container of the id succeeded since; a start or
\* stop that writes the store finds a record there and changes only its
\* last_used, to the time of the write.
C29_RecordLifecycle ==
    /\ [](guest.store.rec.present => guest.store.live)
    /\ [][\A t \in Threads :
            (Refreshing(t) /\ guest'.store.rec # guest.store.rec) =>
                /\ guest.store.rec.present
                /\ guest'.store.rec = [guest.store.rec EXCEPT !.last_used = guest.store.now]]_vars

\* ------------------------------------------------------- running apps
\* FalckProcessState and NEXT_HANDLE, kept in guest.apps: next is the
\* AtomicU32, made counts the BackendProcess values launch_app has
\* returned (a process is known by its number), reg maps a handle to the
\* process registered under it (0: none), kills counts for each process the
\* calls of kill_backend_process, vmof the VM of a BackendProcess::Virtualized
\* (NoName: BackendProcess::Host).
MaxApps == 3
HandleBits == 1
HandleMod == 2 ^ HandleBits
Handles == 0..(HandleMod - 1)
Processes == 1..MaxApps
NoApps ==
    [next |-> 1, made |-> 0, reg |-> [h \in Handles |-> 0],
     kills |-> [p \in Processes |-> 0], vmof |-> [p \in Processes |-> NoName]]
SetApps(a) == guest' = [guest EXCEPT !.apps = a]

\* guard.insert(app.handle, app)
register_running_app(reg, handle, process) == [reg EXCEPT ![handle] = process]

\* guard.remove(&handle): the map afterwards and the app that was removed
unregister_running_app_kept(reg, handle) ==
    [reg |-> reg, apps |-> IF reg[handle] = 0 THEN {} ELSE {reg[handle]}]
unregister_running_app(reg, handle) ==
    [reg |-> [reg EXCEPT ![handle] = 0],
     apps |-> IF reg[handle] = 0 THEN {} ELSE {reg[handle]}]

\* guard.drain().map(|(_, app)| app).collect()
drain_running_apps(reg) ==
    [reg |-> [h \in Handles |-> 0], apps |-> {reg[h] : h \in Handles} \ {0}]

\* launch_falck_app: the blocking part (resolve_backend, port forwards,
\* launch_app) gives a new process or an error, which is returned
launch_falck_app(t) ==
    /\ th[t].pc = "idle"
    /\ guest.apps.made < MaxApps
    /\ \E launched \in BOOLEAN :
          IF launched
          THEN /\ SetApps([guest.apps EXCEPT !.made = @ + 1])
               /\ Upd(t, [IdleThread EXCEPT !.pc = "la_handle", !.op = "launch_falck_app",
                                            !.apps = {guest.apps.made + 1}])
          ELSE /\ UNCHANGED guest
               /\ Upd(t, [IdleThread EXCEPT !.pc = "return", !.op = "launch_falck_app",
                                            !.ret = Err("Application not found")])
    /\ UNCHANGED <<inflight, entries, vmLock, vm, provider, mode>>

\* let handle = NEXT_HANDLE.fetch_add(1, Ordering::Relaxed);
launch_fetch_add(t) ==
    /\ th[t].pc = "la_handle"
    /\ SetApps([guest.apps EXCEPT !.next = (@ + 1) % HandleMod])
    /\ Upd(t, [pc |-> "la_register", handle |-> guest.apps.next])
    /\ UNCHANGED <<inflight, entries, vmLock, vm, provider, mode>>

\* register_running_app(&state, RunningFalckApp { handle, process }); Ok(handle)
launch_register(t) ==
    /\ th[t].pc = "la_register"
    /\ \E process \in th[t].apps :
          SetApps([guest.apps EXCEPT
                      !.reg = register_running_app(@, th[t].handle, process)])
    /\ OpReturn(t, Ok(""), <<>>)
    /\ UNCHANGED <<inflight, entries, vm, provider, mode>>

\* kill_falck_app(state, pid): let app = unregister_running_app(&state, pid);
kill_falck_app(t, pid) ==
    /\ th[t].pc = "idle"
    /\ LET taken == unregister_running_app(guest.apps.reg, pid)
       IN  /\ SetApps([guest.apps EXCEPT !.reg = taken.reg])
           /\ Upd(t, [IdleThread EXCEPT !.pc = "k_kill", !.op = "kill_falck_app",
                                        !.handle = pid, !.apps = taken.apps])
    /\ UNCHANGED <<inflight, entries, vmLock, vm, provider, mode>>

\* kill_backend_process(process): kill_app(pid) on the host, or
\* kill_vm_process(&vm, pid), which builds a VmContext from the handle and
\* runs `kill <pid>` through build_vm_command
kill_backend_process(process) ==
    IF guest.apps.vmof[process] = NoName THEN "kill" ELSE "shell kill"

\* launch_falck_app after its resolve_backend returned a Virtualized
\* context: launch_app starts the process in the VM of the context, the
\* process gets the next handle and is registered
launch_app_register(t) ==
    /\ th[t].pc = "return"
    /\ th[t].op = "resolve_backend"
    /\ th[t].ret.ok
    /\ th[t].ctx.vm # NoName
    /\ "apps" \in DOMAIN guest
    /\ guest.apps.made < MaxApps
    /\ LET process == guest.apps.made + 1
       IN  SetApps([guest.apps EXCEPT
                      !.made = process,
                      !.next = (@ + 1) % HandleMod,
                      !.vmof[process] = th[t].ctx.vm,
                      !.reg = register_running_app(@, guest.apps.next, process)])
    /\ Upd(t, IdleThread)
    /\ UNCHANGED <<inflight, entries, vmLock, vm, provider, mode>>

\* kill_falck_app: the blocking part, kill_backend_process(app.process)
kill_falck_app_blocking(t) ==
    /\ th[t].pc = "k_kill"
    /\ IF th[t].apps = {}
       THEN OpReturn(t, Ok(""), <<>>) /\ UNCHANGED guest
       ELSE \E process \in th[t].apps, killed \in BOOLEAN :
               /\ SetApps([guest.apps EXCEPT !.kills[process] = @ + 1])
               /\ Scheduled(t)
               /\ th' = [th EXCEPT ![t].cmds = Append(@, kill_backend_process(process)),
                                   ![t].name = guest.apps.vmof[process],
                                   ![t].pc = "return",
                                   ![t].ret = IF killed THEN Ok("")
                                              ELSE Err("Failed to stop process")]
               /\ UNCHANGED vmLock
    /\ UNCHANGED <<inflight, entries, vm, provider, mode>>

\* stop_all_running_apps: the map is drained under its lock
stop_all_running_apps(t) ==
    /\ th[t].pc = "idle"
    /\ LET taken == drain_running_apps(guest.apps.reg)
       IN  /\ SetApps([guest.apps EXCEPT !.reg = taken.reg])
           /\ Upd(t, [IdleThread EXCEPT !.pc = "sa_kill", !.op = "stop_all_running_apps",
                                        !.apps = taken.apps])
    /\ UNCHANGED <<inflight, entries, vmLock, vm, provider, mode>>

\* for app in running { let _ = kill_backend_process(app.process); }
stop_all_kill(t) ==
    /\ th[t].pc = "sa_kill"
    /\ IF th[t].apps = {}
       THEN OpReturn(t, Ok(""), <<>>) /\ UNCHANGED guest
       ELSE \E process \in th[t].apps :
               /\ SetApps([guest.apps EXCEPT !.kills[process] = @ + 1])
               /\ Upd(t, [cmds |-> Append(th[t].cmds, "kill"),
                          apps |-> th[t].apps \ {process}])
               /\ UNCHANGED vmLock
    /\ UNCHANGED <<inflight, entries, vm, provider, mode>>

InitApps ==
    /\ InitCommon
    /\ vm = [n \in VmNames |-> NoVm]
    /\ mode = "Virtualized"
    /\ guest = NoGuest @@ [apps |-> NoApps]

NextApps ==
    \E t \in Threads :
        \/ launch_falck_app(t)
        \/ launch_fetch_add(t)
        \/ launch_register(t)
        \/ \E pid \in Handles : kill_falck_app(t, pid)
        \/ kill_falck_app_blocking(t)
        \/ stop_all_running_apps(t)
        \/ stop_all_kill(t)
        \/ Return(t)

SpecApps == InitApps /\ [][NextApps]_vars

Killing(t) == th[t].op = "kill_falck_app" /\ th[t].pc \in {"k_kill", "return"}

\* C30: no process that launch_app returned is passed to
\* kill_backend_process more than once, and none that was not launched,
\* whatever kill_falck_app and stop_all_running_apps calls overlap; a
\* kill_falck_app that finds no app under its handle issues no kill and
\* returns Ok, and one that finds an app issues one kill.
C30_KilledAtMostOnce ==
    /\ \A p \in Processes :
          /\ guest.apps.kills[p] <= 1
          /\ guest.apps.kills[p] > 0 => p <= guest.apps.made
    /\ \A t \in Threads :
          (Killing(t) /\ th[t].pc = "return") =>
              IF th[t].apps = {} THEN th[t].cmds = <<>> /\ th[t].ret = Ok("")
              ELSE th[t].cmds = <<"kill">>

\* two kill_falck_app calls for one handle overlapped: one took the app and
\* killed it, the other found nothing, issued no kill and returned Ok
C30_Witness ==
    \E t, u \in Threads :
        /\ t # u
        /\ Killing(t) /\ Killing(u)
        /\ th[t].handle = th[u].handle
        /\ th[t].pc = "return" /\ th[t].apps = {} /\ th[t].ret = Ok("") /\ th[t].cmds = <<>>
        /\ th[u].pc = "k_kill" /\ th[u].apps # {}
        /\ \E p \in th[u].apps : guest.apps.kills[p] = 0

\* ---------------------------------------------------- status event claims
\* the phases of the vm:status channel
VmPhases ==
    {"checking", "creating", "starting", "waiting", "bootstrapping", "ready",
     "stopping", "stopped", "deleting", "deleted", "error"}

\* ensure_vm_running_inner of leader t has just returned
InnerReturned(t) == th[t].leader /\ th[t].pc = "evr_finish"

\* C31: when ensure_vm_running_inner returns an error the leader has emitted
\* exactly one error event, as the last event before the return; when it
\* returns Ok it has emitted none; and every phase a caller emits is one of
\* the eleven phases of the channel.
C31_OneErrorEvent ==
    \A t \in Threads :
        /\ \A i \in DOMAIN th[t].events : th[t].events[i] \in VmPhases
        /\ InnerReturned(t) =>
              IF th[t].res.ok THEN Count(th[t].events, "error") = 0
              ELSE /\ Count(th[t].events, "error") = 1
                   /\ th[t].events[Len(th[t].events)] = "error"

\* a WSL leader installed the distribution, waited, and failed in the
\* bootstrap: creating, waiting, bootstrapping, then the one error
C31_Witness ==
    \E t \in Threads :
        /\ InnerReturned(t)
        /\ provider = "Wsl"
        /\ th[t].res = Err(E_Bootstrap)
        /\ th[t].events = <<"starting", "creating", "waiting", "bootstrapping", "error">>

\* ------------------------------------------------------- VM contexts
\* One caller launches the app of RepoA in its VM, deletes the VM, and kills
\* the apps it launched.
InitChain ==
    /\ InitCommon
    /\ provider = "Lima"
    /\ vm \in {f \in [VmNames -> VmStates] : f[vm_name_for_repo(RepoB)] = NoVm}
    /\ mode = "Virtualized"
    /\ \E g \in PreferredOnly(RepoA) : guest = g @@ [apps |-> NoApps]

NextChain ==
    \E t \in {FirstThread} :
        \/ resolve_backend(t, RepoA)
        \/ LeaderStep(t)
        \/ LimaStep(t)
        \/ ResolveStep(t)
        \/ launch_app_register(t)
        \/ stop_backend_vm(t, RepoA)
        \/ delete_backend_vm(t, RepoA)
        \/ StopDeleteStep(t)
        \/ \E pid \in Handles : kill_falck_app(t, pid)
        \/ kill_falck_app_blocking(t)
        \/ Return(t)

SpecChain == InitChain /\ [][NextChain]_vars

\* the call has run a guest command built from a VmContext: a probe of
\* resolve_repo_root or the kill of kill_vm_process
UsesContext(t) == th[t].probes # <<>> \/ Positions(th[t].cmds, {"shell kill"}) # {}

\* ensure_vm_running has returned Ok for the call's VM earlier in the call
EnsuredInCall(t) == th[t].res.ok /\ th[t].res.name = th[t].name

\* C32: a call that runs a guest command built from a VmContext has had
\* ensure_vm_running return Ok for that VM before, in the same call.
C32_ContextAfterEnsure ==
    \A t \in Threads : UsesContext(t) => EnsuredInCall(t)

\* ----------------------------------------------------- mount point claims
\* the call went through resolve_repo_root on Lima after its
\* ensure_vm_running
ResolvedOnLima(t) ==
    /\ provider = "Lima"
    /\ th[t].op \in {"resolve_backend", "ensure_backend_for_repo"}
    /\ th[t].probes # <<>>

\* C33: for every host path the mountPoint of the writable repo mount in
\* the expression that limactl_create and limactl_start pass with --set is
\* lima_mount_target of the path, which is "/mnt/" followed by
\* vm_name_for_repo of the path and is the first candidate of
\* resolve_repo_root; and the first probe of a call of resolve_repo_root is
\* a probe of the mount point declared for the call's path.
C33_PreferredIsDeclaredMount ==
    /\ \A k \in Paths :
          /\ DeclaredMountPoint(lima_mounts_yq(k)) = lima_mount_target(k)
          /\ lima_mount_target(k) = "/mnt/" \o vm_name_for_repo(k)
          /\ Candidates(k)[1] = lima_mount_target(k)
    /\ \A t \in Threads :
          ResolvedOnLima(t) =>
              th[t].probes[1] = "exists " \o DeclaredMountPoint(lima_mounts_yq(th[t].key))

\* a call created the instance, with the repo mount declared at
\* /mnt/falck-proj-573131b5, found the repository there and returned it
C33_Witness ==
    \E t \in Threads :
        /\ ResolvedOnLima(t)
        /\ th[t].pc = "return"
        /\ Positions(th[t].cmds, {"limactl create"}) # {}
        /\ th[t].probes[1] = "exists /mnt/falck-proj-573131b5"
        /\ th[t].op = "resolve_backend"
        /\ th[t].ctx.root = "/mnt/falck-proj-573131b5"

\* ------------------------------------------------ stale directory claims
\* C34: ensure_vm_running removes the local instance directory only of an
\* instance that the provider does not have registered.
C34_CleanupOnlyWhenAbsent ==
    \A t \in Threads :
        (th[t].pc \in LeaderPcs /\ th[t].cmd.name = "remove_dir_all") => ~Target(t).reg


\* ------------------------------------------------ port reconcile claims
\* a call of ensure_vm_port_forwards on the POSIX provider that has returned
PortsReturned(t) ==
    /\ provider = "Lima"
    /\ th[t].op = "ensure_vm_port_forwards" /\ th[t].pc = "return"

\* C35: when ensure_vm_port_forwards returns Ok for a POSIX-provider VM,
\* every desired non-zero port and every port the call found forwarded is
\* in the VM's forwarded-port set.
C35_OkMeansForwarded ==
    \A t \in Threads :
        (PortsReturned(t) /\ th[t].ret.ok) =>
            /\ \A i \in DOMAIN th[t].ports :
                  th[t].ports[i] # 0 => th[t].ports[i] \in vm[th[t].name].fwd
            /\ th[t].existing \subseteq vm[th[t].name].fwd


\* C36: a call of ensure_vm_port_forwards that holds the VM operation lock
\* for its restart passes no port that another reconcile call has forwarded
\* since it read the forwarded-port set: the ports it is about to append
\* are still missing, so a port is appended at most once and two calls
\* with the same missing port restart the VM at most once.
C36_ReadAndRestartAtomic ==
    \A t \in Threads :
        (Restarting(t) /\ th[t].pc \in {"pf_stop", "pf_start"}) =>
            StartPorts(t) \cap lima_forwarded_ports(Target(t)) = {}


\* ------------------------------------------------ registry leak claims
\* a call of ensure_vm_running is executing on thread t
Executing(t) == th[t].entry # 0

StartedFirst(t) ==
    /\ provider = "Lima" /\ th[t].leader
    /\ Len(th[t].events) >= 2
    /\ th[t].events[1] = "starting" /\ th[t].events[2] = "waiting"

QuietCmds == {"which limactl", "limactl start", "shell true"}

\* C38: a call of ensure_vm_running on the POSIX provider whose first start
\* command succeeds or reports "already running" issues that one start and
\* readiness probes only (no stop, create, delete or directory cleanup),
\* leaves the instance registered and running, and an Ok result is the VM
\* name computed from the repository path, the same on every repetition.
C38_StartIsIdempotent ==
    \A t \in Threads :
        StartedFirst(t) =>
            /\ \A i \in DOMAIN th[t].cmds : th[t].cmds[i] \in QuietCmds
            /\ Count(th[t].cmds, "limactl start") = 1
            /\ Target(t).reg /\ Target(t).run
            /\ th[t].res.ok => th[t].res = Ok(vm_name_for_repo(th[t].key))
            /\ th[t].pc \in {"lima_ready1", "evr_finish", "evr_remove"}

\* a leader returns Ok with the name after one start and one probe
C38_Witness ==
    \E t \in Threads :
        /\ StartedFirst(t) /\ th[t].pc = "evr_remove"
        /\ th[t].res = Ok("falck-proj-573131b5")
        /\ th[t].cmds = <<"which limactl", "limactl start", "shell true">>
        /\ th[t].events = <<"starting", "waiting">>


\* ------------------------------------------------ kill registry claims
\* C39: kill_falck_app takes its handle out of the registry before the
\* kill: the step that begins the call leaves no entry under the handle,
\* the kill step, succeeding or failing, leaves the registry as it is, and
\* while the call runs and when it has returned the app it took out is
\* registered under no handle.
C39_HandleGoneAfterKill ==
    /\ [](\A t \in Threads :
            Killing(t) =>
               \A p \in th[t].apps : \A h \in Handles : guest.apps.reg[h] # p)
    /\ [][\A t \in Threads :
            /\ (th[t].pc = "idle" /\ th'[t].op = "kill_falck_app") =>
                  guest'.apps.reg[th'[t].handle] = 0
            /\ (Killing(t) /\ th[t].pc = "k_kill" /\ th'[t].pc = "return") =>
                  guest'.apps.reg = guest.apps.reg]_vars

\* a kill_falck_app call whose kill failed has returned the error and its
\* handle is not registered
C39_Witness ==
    \E t \in Threads :
        /\ Killing(t) /\ th[t].pc = "return"
        /\ th[t].apps # {} /\ ~th[t].ret.ok
        /\ guest.apps.reg[th[t].handle] = 0


\* ------------------------------------------------ writable mount claims
MountPcs == {"c_mount_test1", "c_mount_stop", "c_mount_start", "c_mount_test2"}
MountCmdNames == {"shell test -w", "limactl stop", "limactl start"}
MountRestart == <<"shell test -w", "limactl stop", "limactl start", "shell test -w">>

\* the commands of ensure_mount_writable in a call of launch_container:
\* those from the first writability test on
MountCmds(t) ==
    LET q == th[t].cmds
        tests == {i \in DOMAIN q : q[i] = "shell test -w"}
    IN  IF tests = {} THEN <<>>
        ELSE LET first == CHOOSE i \in tests : \A j \in tests : i <= j
             IN  SelectSeq(SubSeq(q, first, Len(q)), LAMBDA c : c \in MountCmdNames)

\* ensure_mount_writable has returned Ok: the launch goes on to the cleanup
MountOk(t) ==
    th[t].op = "launch_container" /\ th[t].pc \in {"c_rm", "c_build", "c_run"}

\* C40: ensure_mount_writable issues its commands in the order test, stop,
\* start, test, each at most once; it issues no stop or start when the
\* first test succeeds, the start only after the stop succeeded, and it
\* returns Ok only from a writability test that succeeded, the first or the
\* one after the restart.
C40_MountRestartOnce ==
    /\ [](\A t \in Threads :
            th[t].op = "launch_container" =>
               /\ IsPrefix(MountCmds(t), MountRestart)
               /\ (th[t].pc = "c_mount_start" /\ ~Busy(t)) =>
                     /\ MountCmds(t) = <<"shell test -w", "limactl stop">>
                     /\ ~Target(t).run
               /\ MountOk(t) =>
                     MountCmds(t) \in {<<"shell test -w">>, MountRestart})
    /\ [][\A t \in Threads :
            (th[t].op = "launch_container" /\ th[t].pc \in MountPcs /\ th'[t].pc = "c_rm") =>
                /\ th[t].cmd.name = "shell test -w"
                /\ Target(t).run]_vars

\* the mount was read-only, the VM was stopped and started again, and the
\* second test found the mount writable
C40_Witness ==
    \E t \in Threads :
        /\ MountOk(t) /\ th[t].pc = "c_rm"
        /\ MountCmds(t) = MountRestart
        /\ Target(t).run

====
